---------------------------- MODULE Spec2Model ----------------------------
(***************************************************************************)
(* Network control and state reconciliation layer of adw-network.         *)
(*                                                                         *)
(* The program drives NetworkManager through the nmcli utility.  Every     *)
(* nmcli invocation is one step of the model: the command line is          *)
(* appended to `log`, the utility's answer (exit status, stderr, stdout)   *)
(* is chosen nondeterministically and kept in `last` until the next        *)
(* command, and the handler's control flow continues from the answer as    *)
(* the source does.                                                        *)
(*                                                                         *)
(* Text is modelled as a sequence of fragments (each fragment stands for   *)
(* a run of characters); searched phrases are whole fragments, so          *)
(* substring search is contiguous-subsequence search.                      *)
(***************************************************************************)
EXTENDS Integers, Sequences, FiniteSets, Bags, TLC

(***************************************************************************)
(* Bounds of the model.                                                    *)
(***************************************************************************)
\* most rows of a device, profile or connection-state listing
MaxRows == 2
\* most rows of the active-connection listings that the two clean-up loops of
\* create_hotspot_on walk through
MaxActive == 1
\* most rows of a Wi-Fi scan
MaxScan == 3
\* most lines of the neighbour table
MaxNeigh == 2
\* most lines of a lease file
MaxLease == 1
\* threads that look vendors up
MaxThreads == 2
\* most lines of a vendor database
MaxOuiLines == 2
\* most runs of load_oui_map the history keeps
MaxLoads == 2
\* largest prefix length of an address handed to parse_ipv4_cidr
MaxPrefix == 40
\* most futures of the hotspot page waiting at an await when the user or
\* the timer adds one
MaxTasks == 4

(***************************************************************************)
(* Text: fragments, lower-casing, trimming, substring search.              *)
(***************************************************************************)
\* fragments that contain upper-case letters, with their lower-case form
LowerTab ==
    [f \in {"Error: ", "Connection ", "Activation was ", "ENQUEUED", "SSID",
            "No network with ", "The ", "Key-Mgmt", "WPA3", "WPA2", "WEP",
            "Error: unknown connection", "Already Exists",
            "Secrets were required, but not provided", "Phone", "TV", "Laptop",
            "Echo", "Roku", "Apple", "Dell", "Sonos", "Samsung", "LG",
            " Electronics", "Espressif", ", Inc."} |->
        CASE f = "Error: " -> "error: "
          [] f = "Connection " -> "connection "
          [] f = "Activation was " -> "activation was "
          [] f = "ENQUEUED" -> "enqueued"
          [] f = "SSID" -> "ssid"
          [] f = "No network with " -> "no network with "
          [] f = "The " -> "the "
          [] f = "Key-Mgmt" -> "key-mgmt"
          [] f = "WPA3" -> "wpa3"
          [] f = "WPA2" -> "wpa2"
          [] f = "WEP" -> "wep"
          [] f = "Error: unknown connection" -> "error: unknown connection"
          [] f = "Already Exists" -> "already exists"
          [] f = "Secrets were required, but not provided" ->
                 "secrets were required, but not provided"
          [] f = "Phone" -> "phone"
          [] f = "TV" -> "tv"
          [] f = "Laptop" -> "laptop"
          [] f = "Echo" -> "echo"
          [] f = "Roku" -> "roku"
          [] f = "Apple" -> "apple"
          [] f = "Dell" -> "dell"
          [] f = "Sonos" -> "sonos"
          [] f = "Samsung" -> "samsung"
          [] f = "LG" -> "lg"
          [] f = " Electronics" -> " electronics"
          [] f = "Espressif" -> "espressif"
          [] f = ", Inc." -> ", inc."]

\* str::to_lowercase
to_lowercase(s) ==
    [i \in 1..Len(s) |-> IF s[i] \in DOMAIN LowerTab THEN LowerTab[s[i]] ELSE s[i]]

\* str::contains with a non-empty pattern
contains(s, pat) ==
    \E i \in 1..(Len(s) - Len(pat) + 1) : SubSeq(s, i, i + Len(pat) - 1) = pat

\* white-space fragments
IsSpace(f) == f \in {" ", "\n"}

\* str::trim
trim(s) ==
    LET keep == {i \in 1..Len(s) : ~IsSpace(s[i])}
    IN  IF keep = {} THEN <<>>
        ELSE LET lo == CHOOSE i \in keep : \A j \in keep : i <= j
                 hi == CHOOSE i \in keep : \A j \in keep : j <= i
             IN  SubSeq(s, lo, hi)

(***************************************************************************)
(* Answers of the utility.                                                 *)
(***************************************************************************)
MsgEnqueued    == <<"Error: ", "Connection ", "activation was ", "enqueued", ".">>
MsgEnqueuedUp  == <<"Activation was ", "ENQUEUED">>
MsgInterrupted == <<"Error: ", "Connection ", "activation failed: ", "The ",
                    "base network ", "connection was interrupted", ".">>
MsgInterrupted2 == <<"Error: ", "The ", "connection was interrupted">>
MsgNoNetwork   == <<"Error: ", "No network with ", "SSID", " 'Home' found.">>
MsgSsidNotFound == <<"Error: ", "SSID", " 'Home' ", "not found", ".">>
MsgNetNotFound == <<"The ", "network could not be found", ".">>
MsgKeyMgmt     == <<"Error: ", "802-11-wireless-security.", "key-mgmt",
                    ": property is ", "missing", ".">>
MsgKeyMgmtUp   == <<"Key-Mgmt", " ", "missing">>
MsgKeyMgmtOnly == <<"Error: ", "invalid ", "key-mgmt", ".">>
MsgKeyMgmtIntr == <<"key-mgmt", " ", "missing", "; ", "connection was interrupted">>
MsgEnqKeyMgmt  == <<"enqueued", "; ", "key-mgmt", " ", "missing">>
MsgEnqIntr     == <<"enqueued", "; ", "connection was interrupted">>
MsgSecrets     == <<"Error: ", "Secrets were required, but not provided", ".">>
MsgUnknownConn == <<"Error: unknown connection", " 'Hotspot'.">>
MsgExists      == <<"Error: ", "connection ", "already exists", ".">>
MsgPermission  == <<"Error: ", "not authorized", ".">>

\* error texts an activation or direct-connect command can print
ConnectMessages ==
    {MsgEnqueued, MsgEnqueuedUp, MsgInterrupted, MsgInterrupted2, MsgNoNetwork,
     MsgSsidNotFound, MsgNetNotFound, MsgKeyMgmt, MsgKeyMgmtUp, MsgKeyMgmtOnly,
     MsgKeyMgmtIntr, MsgEnqKeyMgmt, MsgEnqIntr, MsgSecrets}

\* std::process::Output, or the io::Error of a failed spawn (status "ioerr")
Success     == [status |-> "ok", stderr |-> <<>>, stdout |-> <<>>]
IoErr       == [status |-> "ioerr", stderr |-> <<>>, stdout |-> <<>>]
Failure(m)  == [status |-> "fail", stderr |-> m, stdout |-> <<>>]
\* a failure that prints its text on stdout and only white space on stderr
FailureOnStdout(m) == [status |-> "fail", stderr |-> <<" ">>, stdout |-> m \o <<"\n">>]

\* io::Error rendered with to_string()
IoErrText == <<"No such file or directory (os error 2)">>

ConnectOutputs ==
    {Success, IoErr} \cup {Failure(m) : m \in ConnectMessages}
        \cup {FailureOnStdout(m) : m \in {MsgEnqueued, MsgInterrupted, MsgSecrets}}

\* answers to a command whose text the program does not classify
PlainOutputs == {Success, IoErr, Failure(MsgPermission)}

(***************************************************************************)
(* nm.rs: error text and its classification.                               *)
(***************************************************************************)
nmcli_error_text(output) ==
    IF trim(output.stderr) # <<>> THEN trim(output.stderr) ELSE trim(output.stdout)

is_activation_queued_sensitive(stderr) ==
    contains(stderr, <<"activation was ", "enqueued">>) \/ contains(stderr, <<"enqueued">>)

is_activation_queued(stderr) ==
    LET err == to_lowercase(stderr)
    IN  contains(err, <<"activation was ", "enqueued">>) \/ contains(err, <<"enqueued">>)

is_network_not_found_error(message) ==
    LET msg == to_lowercase(message)
    IN  \/ contains(msg, <<"network could not be found">>)
        \/ contains(msg, <<"no network with ", "ssid">>)
        \/ (contains(msg, <<"not found">>) /\ contains(msg, <<"ssid">>))

is_key_mgmt_missing_error(message) ==
    LET msg == to_lowercase(message)
    IN  contains(msg, <<"key-mgmt">>) /\ contains(msg, <<"missing">>)

is_connection_interrupted_error(message) ==
    LET msg == to_lowercase(message)
    IN  \/ contains(msg, <<"base network ", "connection was interrupted">>)
        \/ contains(msg, <<"connection was interrupted">>)

\* Result values
Ok(v)   == [tag |-> "Ok", val |-> v, text |-> <<>>]
Err(t)  == [tag |-> "Err", val |-> "none", text |-> t]
NoResult == [tag |-> "none", val |-> "none", text |-> <<>>]

\* anyhow!("<prefix>{}", err)
Wrap(prefix, err) == <<prefix>> \o err


(***************************************************************************)
(* State.                                                                  *)
(***************************************************************************)
VARIABLES
    op,         \* the public operation in progress, "none" when idle
    pc,         \* position inside the operation
    args,       \* arguments of the call
    log,        \* commands issued by the call so far, oldest first
    last,       \* answer of the most recent command
    err,        \* local `err` of activate_saved_connection (first failure text)
    device,     \* local `device` of connect_secured_network_with_key_mgmt
    todo,       \* connections still to visit in the loop being executed
    result,     \* value returned by the call, NoResult while it runs
    profile,    \* NetworkManager holds a connection profile named "Hotspot"
    prevStopOk, \* the last call that returned was a stop_hotspot that returned
                \* Ok; since then no other operation was started and nothing
                \* outside the program has touched the profile
    file,       \* content of the hotspot configuration file
    dir,        \* the parent directory of the configuration file exists
    OUI_MAP,    \* the static OnceLock of oui_map: state and value
    lookup,     \* for every thread, its position inside vendor_from_mac
    loaded,     \* history: the maps load_oui_map has returned, oldest first
    looked,     \* history: some vendor lookup has been started
    page        \* the HotspotPage: its cells, its switch and its futures

ctl  == <<op, args>>
loc  == <<err, device, todo>>
env  == <<profile, prevStopOk>>
fs   == <<file, dir>>
call == <<op, pc, args, log, last, err, device, todo, result, profile,
          prevStopOk, file, dir>>
cache == <<OUI_MAP, lookup, loaded, looked>>
vars == <<op, pc, args, log, last, err, device, todo, result, profile,
          prevStopOk, file, dir, OUI_MAP, lookup, loaded, looked, page>>

\* the SSID, password and interface the calls are made with
Ssid == "Home"
Password == "$password"
Iface == "wlan0"

\* all sequences over S of length at most n
SeqsUpTo(S, n) == UNION {[1..k -> S] : k \in 0..n}

\* Option<&str> security hints: <<>> is None, <<s>> is Some(s)
SecurityHints ==
    {<<>>, << <<"WPA3">> >>, << <<"WPA2">> >>, << <<"WEP">> >>,
     << <<"wpa1", " ", "wpa2">> >>, << <<"WPA2", " ", "wpa3">> >>,
     << <<"WEP", " ", "WPA3">> >>}

NoArgs == [hint |-> <<>>, config |-> <<>>, cidr |-> <<>>, device |-> <<>>]

\* one entry of the command log: the command line, what the program saw of
\* the way the command ended, and what it read from the answer
Entry(argv, st, read) == [argv |-> argv, st |-> st, read |-> read]

\* what the program sees of the way a command ended
\*   Status:    output.status.success() is tested
\*   Spawned:   only the io::Error of a failed spawn is told from an answer
\*   Discarded: `let _ = ...`, the outcome is dropped
Status(o)    == o.status
Spawned(o)   == IF o.status = "ioerr" THEN "ioerr" ELSE "ran"
Discarded(o) == "discarded"

\* the command line is recorded, the answer kept until the next command
Issue(argv, o, st, read) ==
    /\ log' = Append(log, Entry(argv, st, read))
    /\ last' = o

\* the operation returns r
Return(r) ==
    /\ pc' = "done"
    /\ result' = r

Goto(l) ==
    /\ pc' = l
    /\ result' = result

(***************************************************************************)
(* nm.rs: connect_open_network, connect_secured_network.                   *)
(***************************************************************************)
CmdConnectOpen    == <<"dev", "wifi", "connect", Ssid>>
CmdConnectSecured == <<"device", "wifi", "connect", Ssid, "password", Password>>
CmdRescan         == <<"device", "wifi", "rescan">>
CmdUp(name)       == <<"connection", "up", name>>
CmdDown(name)     == <<"connection", "down", name>>

\* connect_open_network_once, from the answer of its command
connect_open_network_once(output) ==
    IF output.status = "ioerr" THEN Err(IoErrText)
    ELSE IF output.status = "ok" THEN Ok("Connected")
    ELSE LET e == nmcli_error_text(output)
         IN  IF is_activation_queued(e) THEN Ok("Queued") ELSE Err(e)

\* connect_secured_network_once, from the answer of its command
connect_secured_network_once(output) ==
    IF output.status = "ioerr" THEN Err(IoErrText)
    ELSE IF output.status = "ok" THEN Ok("Connected")
    ELSE LET e == nmcli_error_text(output)
         IN  IF is_activation_queued(e) THEN Ok("Queued") ELSE Err(e)

\* what the log keeps of a direct-connect attempt: its error text
ReadOf(r) == IF r.tag = "Err" THEN r.text ELSE <<>>

OpenAfterFirstRetryAll(r) ==
    IF r.tag = "Ok" THEN Return(r) ELSE Goto("open_rescan")

\* the match arms of connect_open_network on the first attempt's result
OpenAfterFirst(r) ==
    IF r.tag = "Ok" THEN Return(r)
    ELSE IF is_connection_interrupted_error(r.text) THEN Goto("open_rescan")
    ELSE IF is_network_not_found_error(r.text) THEN Goto("open_rescan")
    ELSE Return(Err(Wrap("Failed to connect: ", r.text)))

\* a retry that is itself retried after an interrupted connection
OpenAfterRetryAgain(r) ==
    IF r.tag = "Ok" THEN Return(r)
    ELSE IF is_connection_interrupted_error(r.text) THEN Goto("open_rescan")
    ELSE Return(Err(Wrap("Failed to connect: ", r.text)))

\* .map_err(|err| anyhow!("Failed to connect: {}", err)) on the retry
OpenAfterRetry(r) ==
    IF r.tag = "Ok" THEN Return(r)
    ELSE Return(Err(Wrap("Failed to connect: ", r.text)))

OpenFirst ==
    /\ op = "connect_open" /\ pc = "open_first"
    /\ \E o \in ConnectOutputs :
          LET r == connect_open_network_once(o)
          IN  /\ Issue(CmdConnectOpen, o, Status(o), ReadOf(r))
              /\ OpenAfterFirst(r)
    /\ UNCHANGED <<ctl, loc, env, fs, cache, page>>

OpenRescan ==
    /\ op = "connect_open" /\ pc = "open_rescan"
    /\ \E o \in PlainOutputs : Issue(CmdRescan, o, Discarded(o), <<>>)
    /\ Goto("open_retry")
    /\ UNCHANGED <<ctl, loc, env, fs, cache, page>>

OpenRetry ==
    /\ op = "connect_open" /\ pc = "open_retry"
    /\ \E o \in ConnectOutputs :
          LET r == connect_open_network_once(o)
          IN  /\ Issue(CmdConnectOpen, o, Status(o), ReadOf(r))
              /\ OpenAfterRetry(r)
    /\ UNCHANGED <<ctl, loc, env, fs, cache, page>>

\* the match arms of connect_secured_network on the first attempt's result
SecuredAfterFirst(r) ==
    IF r.tag = "Ok" THEN Return(r)
    ELSE IF is_key_mgmt_missing_error(r.text) THEN Goto("km_device")
    ELSE IF is_connection_interrupted_error(r.text) THEN Goto("sec_rescan")
    ELSE IF is_network_not_found_error(r.text) THEN Goto("sec_rescan")
    ELSE Return(Err(Wrap("Failed to connect: ", r.text)))

SecuredAfterRetryLoop(r) ==
    IF r.tag = "Ok" THEN Return(r)
    ELSE IF is_connection_interrupted_error(r.text) THEN Goto("sec_rescan")
    ELSE IF is_network_not_found_error(r.text) THEN Goto("sec_rescan")
    ELSE Return(Err(Wrap("Failed to connect: ", r.text)))

\* .map_err(|err| anyhow!("Failed to connect: {}", err)) on the retry
SecuredAfterRetry(r) ==
    IF r.tag = "Ok" THEN Return(r)
    ELSE Return(Err(Wrap("Failed to connect: ", r.text)))

SecuredFirst ==
    /\ op = "connect_secured" /\ pc = "sec_first"
    /\ \E o \in ConnectOutputs :
          LET r == connect_secured_network_once(o)
          IN  /\ Issue(CmdConnectSecured, o, Status(o), ReadOf(r))
              /\ SecuredAfterFirst(r)
    /\ UNCHANGED <<ctl, loc, env, fs, cache, page>>

SecuredRescan ==
    /\ op = "connect_secured" /\ pc = "sec_rescan"
    /\ \E o \in PlainOutputs : Issue(CmdRescan, o, Discarded(o), <<>>)
    /\ Goto("sec_retry")
    /\ UNCHANGED <<ctl, loc, env, fs, cache, page>>

SecuredRetry ==
    /\ op = "connect_secured" /\ pc = "sec_retry"
    /\ \E o \in ConnectOutputs :
          LET r == connect_secured_network_once(o)
          IN  /\ Issue(CmdConnectSecured, o, Status(o), ReadOf(r))
              /\ SecuredAfterRetry(r)
    /\ UNCHANGED <<ctl, loc, env, fs, cache, page>>

(***************************************************************************)
(* nm.rs: connect_secured_network_with_key_mgmt (the key-management        *)
(* fallback) and activate_saved_connection.                                *)
(***************************************************************************)
CmdDeviceList == <<"-t", "-f", "DEVICE,TYPE,STATE", "device">>
CmdAddProfile(dev) ==
    <<"connection", "add", "type", "wifi", "ifname", dev, "con-name", Ssid,
      "ssid", Ssid>>
CmdModifySecurity(key_mgmt) ==
    IF key_mgmt = "none"
    THEN <<"connection", "modify", Ssid, "wifi-sec.key-mgmt", "none",
           "wifi-sec.wep-key0", Password>>
    ELSE <<"connection", "modify", Ssid, "wifi-sec.key-mgmt", key_mgmt,
           "wifi-sec.psk", Password>>

\* the same mapping with the two tests in the other order
key_mgmt_from_security_type_wep_first(security_type) ==
    IF security_type = <<>> THEN "wpa-psk"
    ELSE LET sec == to_lowercase(security_type[1])
         IN  IF contains(sec, <<"wep">>) THEN "none"
             ELSE IF contains(sec, <<"wpa3">>) THEN "sae"
             ELSE "wpa-psk"

key_mgmt_from_security_type(security_type) ==
    IF security_type = <<>> THEN "wpa-psk"
    ELSE LET sec == to_lowercase(security_type[1])
         IN  IF contains(sec, <<"wpa3">>) THEN "sae"
             ELSE IF contains(sec, <<"wep">>) THEN "none"
             ELSE "wpa-psk"

\* rows of `nmcli -t -f DEVICE,TYPE,STATE device`, split at ':'
WifiDeviceRows ==
    {<<"wlan0", "wifi", "connected">>, <<"wlan1", "wifi", "unavailable">>,
     <<"eth0", "ethernet", "connected">>, <<"lo", "loopback">>}

Listing(rows) == [status |-> "ok", stderr |-> <<>>, stdout |-> rows]

DeviceListOutputs ==
    {IoErr, Failure(MsgPermission)}
        \cup {Listing(l) : l \in SeqsUpTo(WifiDeviceRows, MaxRows)}

\* the loop of get_wifi_device: the first usable Wi-Fi device, <<>> if none
first_wifi_device(rows) ==
    LET hits == {i \in 1..Len(rows) :
                    /\ Len(rows[i]) >= 3
                    /\ rows[i][2] = "wifi"
                    /\ rows[i][3] # "unavailable"}
    IN  IF hits = {} THEN <<>>
        ELSE <<rows[CHOOSE i \in hits : \A j \in hits : i <= j][1]>>

get_wifi_device(output) ==
    IF output.status = "ioerr" THEN Err(IoErrText)
    ELSE IF output.status # "ok"
    THEN Err(Wrap("Failed to list devices: ", nmcli_error_text(output)))
    ELSE IF first_wifi_device(output.stdout) = <<>>
    THEN Err(<<"No available Wi-Fi device found">>)
    ELSE Ok(first_wifi_device(output.stdout)[1])

KmDevice ==
    /\ op = "connect_secured" /\ pc = "km_device"
    /\ \E o \in DeviceListOutputs :
          LET r == get_wifi_device(o)
          IN  /\ Issue(CmdDeviceList, o, Status(o), <<>>)
              /\ IF r.tag = "Err"
                 THEN Return(r) /\ device' = device
                 ELSE Goto("km_add") /\ device' = r.val
    /\ UNCHANGED <<ctl, err, todo, env, fs, cache, page>>

KmAdd ==
    /\ op = "connect_secured" /\ pc = "km_add"
    /\ \E o \in {Success, IoErr, Failure(MsgExists), Failure(MsgPermission)} :
          /\ Issue(CmdAddProfile(device), o, Status(o),
                   IF o.status = "fail" THEN o.stderr ELSE <<>>)
          /\ IF o.status = "ioerr" THEN Return(Err(IoErrText))
             ELSE Goto("km_modify")
    /\ UNCHANGED <<ctl, loc, env, fs, cache, page>>

KmAfterModifyIgnored(o) ==
    IF o.status = "ioerr" THEN Return(Err(IoErrText)) ELSE Goto("as_up1")

\* the check of modify_result
KmAfterModify(o) ==
    IF o.status = "ioerr" THEN Return(Err(IoErrText))
    ELSE IF o.status # "ok"
    THEN Return(Err(Wrap("Failed to set security: ", nmcli_error_text(o))))
    ELSE Goto("as_up1")

KmModify ==
    /\ op = "connect_secured" /\ pc = "km_modify"
    /\ \E o \in {Success, IoErr, Failure(MsgPermission), Failure(MsgKeyMgmt)} :
          /\ Issue(CmdModifySecurity(key_mgmt_from_security_type(args.hint)), o, Status(o), <<>>)
          /\ KmAfterModify(o)
    /\ UNCHANGED <<ctl, loc, env, fs, cache, page>>

\* the tail of activate_saved_connection for the failure text e
AsFail(e) ==
    IF is_activation_queued(e) THEN Return(Ok("Queued"))
    ELSE Return(Err(Wrap("Failed to activate connection: ", e)))

AsUp1RetryAlways ==
    /\ op \in {"connect_secured", "activate_saved"} /\ pc = "as_up1"
    /\ \E o \in ConnectOutputs :
          LET e == nmcli_error_text(o)
          IN  /\ Issue(CmdUp(Ssid), o, Status(o), IF o.status = "fail" THEN e ELSE <<>>)
              /\ IF o.status = "ioerr" THEN Return(Err(IoErrText)) /\ err' = err
                 ELSE IF o.status = "ok" THEN Return(Ok("Connected")) /\ err' = err
                 ELSE Goto("as_rescan") /\ err' = e
    /\ UNCHANGED <<ctl, device, todo, env, fs, cache, page>>

AsUp1 ==
    /\ op \in {"connect_secured", "activate_saved"} /\ pc = "as_up1"
    /\ \E o \in ConnectOutputs :
          LET e == nmcli_error_text(o)
          IN  /\ Issue(CmdUp(Ssid), o, Status(o), IF o.status = "fail" THEN e ELSE <<>>)
              /\ IF o.status = "ioerr" THEN Return(Err(IoErrText)) /\ err' = err
                 ELSE IF o.status = "ok" THEN Return(Ok("Connected")) /\ err' = err
                 ELSE IF is_connection_interrupted_error(e)
                 THEN Goto("as_rescan") /\ err' = e
                 ELSE AsFail(e) /\ err' = err
    /\ UNCHANGED <<ctl, device, todo, env, fs, cache, page>>

AsRescan ==
    /\ op \in {"connect_secured", "activate_saved"} /\ pc = "as_rescan"
    /\ \E o \in PlainOutputs : Issue(CmdRescan, o, Discarded(o), <<>>)
    /\ Goto("as_up2")
    /\ UNCHANGED <<ctl, loc, env, fs, cache, page>>

AsUp2 ==
    /\ op \in {"connect_secured", "activate_saved"} /\ pc = "as_up2"
    /\ \E o \in ConnectOutputs :
          /\ Issue(CmdUp(Ssid), o, Status(o),
                   IF o.status = "fail" THEN nmcli_error_text(o) ELSE <<>>)
          /\ IF o.status = "ioerr" THEN Return(Err(IoErrText))
             ELSE IF o.status = "ok" THEN Return(Ok("Connected"))
             ELSE AsFail(err)
    /\ UNCHANGED <<ctl, loc, env, fs, cache, page>>

(***************************************************************************)
(* config.rs: HotspotConfig and its validation.  The SSID and the password *)
(* are sequences of Unicode code points.                                   *)
(***************************************************************************)
\* bytes of the UTF-8 encoding of code point c
Utf8Len(c) == IF c < 128 THEN 1 ELSE IF c < 2048 THEN 2 ELSE IF c < 65536 THEN 3 ELSE 4

\* String::len: the length in bytes, the code points of k bytes counted k
\* times
len(s) ==
    LET OfLen(k) == Cardinality({i \in 1..Len(s) : Utf8Len(s[i]) = k})
    IN  OfLen(1) + 2 * OfLen(2) + 3 * OfLen(3) + 4 * OfLen(4)

is_ascii(c) == c < 128
is_ascii_control(c) == c < 32 \/ c = 127

validate_ssid(config) ==
    IF config.ssid = <<>> \/ len(config.ssid) > 32
    THEN Err(<<"SSID must be 1-32 characters">>)
    ELSE IF ~(\A i \in 1..Len(config.ssid) :
                 is_ascii(config.ssid[i]) /\ ~is_ascii_control(config.ssid[i]))
    THEN Err(<<"SSID contains invalid characters">>)
    ELSE Ok("unit")

validate_password_length_only(config) ==
    IF config.password # <<>> /\ (len(config.password) < 8 \/ len(config.password) > 63)
    THEN Err(<<"Password must be 8-63 characters or empty for open network">>)
    ELSE Ok("unit")

validate_password(config) ==
    IF config.password # <<>> /\ (len(config.password) < 8 \/ len(config.password) > 63)
    THEN Err(<<"Password must be 8-63 characters or empty for open network">>)
    ELSE IF ~(\A i \in 1..Len(config.password) :
                 is_ascii(config.password[i]) /\ ~is_ascii_control(config.password[i]))
    THEN Err(<<"Password contains invalid characters">>)
    ELSE Ok("unit")

validate_ssid_only(config) == validate_ssid(config)

validate(config) ==
    IF validate_ssid(config).tag = "Err" THEN validate_ssid(config)
    ELSE IF validate_password(config).tag = "Err" THEN validate_password(config)
    ELSE Ok("unit")

\* n copies of code point c
Rep(n, c) == [i \in 1..n |-> c]

Config(ssid, password, band, hidden) ==
    [ssid |-> ssid, password |-> password, band |-> band, channel |-> "Auto",
     hidden |-> hidden]

\* the configurations the calls are made with: 97 is 'a', 9 a tab, 233 e-acute
HotspotConfigs ==
    {Config(Rep(4, 97), <<>>, "Auto", FALSE),
     Config(Rep(32, 97), Rep(8, 97), "5 GHz", TRUE),
     Config(<<>>, Rep(8, 97), "Auto", FALSE),
     Config(Rep(33, 97), <<>>, "Auto", FALSE),
     Config(<<97, 9, 97>>, <<>>, "2.4 GHz", FALSE),
     Config(<<233>>, <<>>, "Auto", FALSE),
     Config(Rep(4, 97), Rep(7, 97), "Auto", FALSE),
     Config(Rep(4, 97), Rep(64, 97), "Auto", TRUE),
     Config(Rep(4, 97), Rep(7, 97) \o <<127>>, "Auto", FALSE)}

\* configurations at the edges of the validation, which save_config is
\* called with as well: 32 is a space, 126 a tilde, 31 and 127 are control
\* characters, 233 takes two bytes
BoundaryConfigs ==
    {Config(Rep(1, 32), Rep(63, 126), "Auto", FALSE),
     Config(Rep(32, 126), Rep(8, 32), "Auto", FALSE),
     Config(Rep(17, 233), <<>>, "Auto", FALSE),
     Config(<<31>>, <<>>, "Auto", FALSE),
     Config(Rep(31, 97) \o <<127>>, Rep(8, 97), "Auto", FALSE),
     Config(<<>>, Rep(7, 97), "Auto", FALSE),
     Config(Rep(4, 97), <<97>>, "Auto", FALSE),
     Config(Rep(4, 97), Rep(4, 233), "Auto", FALSE),
     Config(Rep(4, 97), Rep(32, 233), "Auto", FALSE),
     Config(Rep(4, 97), Rep(62, 97) \o <<31>>, "Auto", FALSE)}

SaveConfigs == HotspotConfigs \cup BoundaryConfigs

(***************************************************************************)
(* hotspot.rs: stop_hotspot.                                               *)
(***************************************************************************)
CmdDeleteHotspot == <<"connection", "delete", "Hotspot">>

\* answers to `connection delete Hotspot`: the utility deletes an existing
\* profile or refuses; it reports an unknown connection when there is none
DeleteOutputs ==
    IF profile THEN {Success, IoErr, Failure(MsgPermission)}
    ELSE {IoErr, Failure(MsgUnknownConn)}

stop_result_strict(output) ==
    IF output.status = "ok" THEN Ok("unit")
    ELSE IF output.status = "ioerr" THEN Err(IoErrText)
    ELSE Err(Wrap("Failed to delete hotspot: ", output.stderr))

\* the result of stop_hotspot from the answer of the delete command
stop_result(output) ==
    IF output.status = "ioerr" THEN Err(IoErrText)
    ELSE IF output.status # "ok" /\ ~contains(output.stderr, <<"Error: unknown connection">>)
    THEN Err(Wrap("Failed to delete hotspot: ", output.stderr))
    ELSE Ok("unit")

StopDown ==
    /\ op \in {"stop_hotspot", "create_hotspot"} /\ pc = "stop_down"
    /\ \E o \in PlainOutputs : Issue(CmdDown("Hotspot"), o, Discarded(o), <<>>)
    /\ Goto("stop_delete")
    /\ UNCHANGED <<ctl, loc, env, fs, cache, page>>

\* the delete whose failure ends create_hotspot_on as well
StopDeletePropagated ==
    /\ op \in {"stop_hotspot", "create_hotspot"} /\ pc = "stop_delete"
    /\ \E o \in DeleteOutputs :
          /\ Issue(CmdDeleteHotspot, o, Status(o), <<>>)
          /\ profile' = IF o.status = "ok" THEN FALSE ELSE profile
          /\ IF op = "stop_hotspot" \/ stop_result(o).tag = "Err"
             THEN Return(stop_result(o))
             ELSE Goto("hs_add_fast")
    /\ UNCHANGED <<ctl, loc, prevStopOk, fs, cache, page>>

StopDelete ==
    /\ op \in {"stop_hotspot", "create_hotspot"} /\ pc = "stop_delete"
    /\ \E o \in DeleteOutputs :
          /\ Issue(CmdDeleteHotspot, o, Status(o), <<>>)
          /\ profile' = IF o.status = "ok" THEN FALSE ELSE profile
          /\ IF op = "stop_hotspot" THEN Return(stop_result(o))
             ELSE Goto("hs_add_fast")   \* let _ = stop_hotspot().await
    /\ UNCHANGED <<ctl, loc, prevStopOk, fs, cache, page>>

(***************************************************************************)
(* hotspot.rs: create_hotspot_on and the functions it calls.               *)
(***************************************************************************)
CmdDeviceStatus == <<"-t", "-f", "DEVICE,TYPE", "device", "status">>
CmdActiveNDT    == <<"-t", "-f", "NAME,DEVICE,TYPE", "connection", "show", "--active">>
CmdActiveNT     == <<"-t", "-f", "NAME,TYPE", "connection", "show", "--active">>
CmdActiveNS     == <<"-t", "-f", "NAME,STATE", "connection", "show", "--active">>
CmdProfileList  == <<"-t", "-f", "NAME", "connection", "show">>
CmdDetail(name) == <<"-t", "-f", "ipv4.method,wifi.mode", "connection", "show", name>>
CmdAutoconnect  == <<"connection", "modify", "Hotspot", "autoconnect", "no">>
CmdHidden       == <<"connection", "modify", "Hotspot", "wifi.hidden", "yes">>

band_to_nmcli(band) ==
    IF band = "2.4 GHz" THEN "bg" ELSE IF band = "5 GHz" THEN "a" ELSE "bg"

\* hotspot_args of add_hotspot
CmdHotspot(config, iface) ==
    <<"dev", "wifi", "hotspot", "ifname", iface, "con-name", "Hotspot", "ssid", "$ssid">>
        \o (IF config.password # <<>> THEN <<"password", "$password">> ELSE <<>>)
        \o (IF config.band # "Auto" THEN <<"band", band_to_nmcli(config.band)>> ELSE <<>>)

\* args of the manual creation in add_hotspot
CmdAddHotspot(config, iface) ==
    <<"connection", "add", "type", "wifi", "ifname", iface, "con-name", "Hotspot",
      "autoconnect", "no", "ssid", "$ssid", "mode", "ap", "ipv4.method", "shared",
      "ipv4.addresses", "192.168.50.1/24", "ipv6.method", "disabled">>
        \o (IF config.password # <<>>
            THEN <<"wifi-sec.key-mgmt", "wpa-psk", "wifi-sec.psk", "$password">> ELSE <<>>)
        \o (IF config.band # "Auto" THEN <<"wifi.band", band_to_nmcli(config.band)>> ELSE <<>>)
        \o (IF config.channel # "Auto" THEN <<"wifi.channel", config.channel>> ELSE <<>>)
        \o (IF config.hidden THEN <<"wifi.hidden", "yes">> ELSE <<>>)

\* str::trim on one field of a row
trim_field(f) == IF f = "wifi " THEN "wifi" ELSE f

Wireless == <<"802-11-", "wireless">>
Ethernet == <<"802-3-ethernet">>

\* a listing command whose exit status the program does not look at
ListingOutputs(rowsets) ==
    {IoErr, Failure(MsgPermission)} \cup {Listing(l) : l \in rowsets}

\* rows of `device status`; the utility lists every device once
DeviceStatusRows ==
    {<<Iface, "wifi">>, <<Iface, "wifi ">>, <<Iface, "ethernet">>,
     <<"eth0", "ethernet">>, <<"wlan1", "wifi">>, <<"lo">>}
DeviceStatusListings ==
    {l \in SeqsUpTo(DeviceStatusRows, MaxRows) :
        \A i, j \in 1..Len(l) : i # j => l[i][1] # l[j][1]}

check_device_exists_any_type(rows, iface) ==
    IF \E i \in 1..Len(rows) : Len(rows[i]) >= 2 /\ rows[i][1] = iface
    THEN Ok("unit")
    ELSE Err(<<"WiFi device ", iface, " not found">>)

\* the loop of check_device_exists
check_device_exists(rows, iface) ==
    LET hits == {i \in 1..Len(rows) : Len(rows[i]) >= 2 /\ rows[i][1] = iface}
    IN  IF hits = {} THEN Err(<<"WiFi device ", iface, " not found">>)
        ELSE LET device_type ==
                     trim_field(rows[CHOOSE i \in hits : \A j \in hits : i <= j][2])
             IN  IF device_type # "wifi"
                 THEN Err(<<"Device ", iface, " is not a WiFi device (type: ",
                            device_type, ")">>)
                 ELSE Ok("unit")

\* rows of the active-connection listings
ActiveNDTRows ==
    {<<"Home", Iface, Wireless>>, <<"Guest", "wlan1", Wireless>>,
     <<"Wired", Iface, Ethernet>>, <<"Hotspot", Iface, Wireless>>, <<"junk">>}
ActiveNTRows ==
    {<<"Home", Wireless>>, <<"Guest", Wireless>>, <<"Wired", Ethernet>>,
     <<"Hotspot", Wireless>>, <<"junk">>}
ActiveNSRows ==
    {<<"Hotspot", "activated">>, <<"Hotspot", "activating">>,
     <<"Home", "activated">>, <<"Hotspot">>}
\* the connection-state listings; an active connection is listed once
ActiveNSListings ==
    {l \in SeqsUpTo(ActiveNSRows, MaxRows) :
        \A i, j \in 1..Len(l) : i # j => l[i][1] # l[j][1]}
ProfileRows == {"Home", "Hotspot"}

\* the subsequence of the rows that are in kept, mapped to their first field
NamesOf(rows, kept) ==
    LET F[i \in 0..Len(rows)] ==
            IF i = 0 THEN <<>>
            ELSE F[i - 1] \o (IF rows[i] \in kept THEN <<rows[i][1]>> ELSE <<>>)
    IN  F[Len(rows)]

\* the same choice of rows without the test of the device
DisconnectRow_any_interface(iface, row) ==
    /\ Len(row) >= 3
    /\ contains(row[3], <<"wireless">>)
    /\ row[1] # "Hotspot"

\* disconnect_wifi_on_interface: the rows whose connection is brought down
DisconnectRow(iface, row) ==
    /\ Len(row) >= 3
    /\ ~(row[2] # iface \/ ~contains(row[3], <<"wireless">>))
    /\ row[1] # "Hotspot"

\* cleanup_shared_connections: the rows whose details are looked up
CleanupRow(row) ==
    /\ Len(row) = 2
    /\ ~(~contains(row[2], <<"wireless">>) \/ row[1] = "Hotspot")

\* answers to the detail look-up of one connection
DetailShared == <<"ipv4.method:", "shared", "\n", "802-11-wireless.mode:", "infrastructure">>
DetailAp     == <<"ipv4.method:", "auto", "\n", "802-11-wireless.mode:", "ap">>
DetailClient == <<"ipv4.method:", "auto", "\n", "802-11-wireless.mode:", "infrastructure">>
DetailOutputs ==
    {IoErr, Failure(MsgPermission), Listing(DetailShared), Listing(DetailAp),
     Listing(DetailClient)}

\* hotspot_connection_exists, from the rows of the profile listing
hotspot_connection_exists(rows) ==
    \E i \in 1..Len(rows) : trim_field(rows[i]) = "Hotspot"

\* the profile listing shows the profile "Hotspot" exactly when it exists
ProfileListings ==
    {l \in SeqsUpTo(ProfileRows, MaxRows) :
        (\E i \in 1..Len(l) : l[i] = "Hotspot") <=> profile}

is_hotspot_active_any_state(output) ==
    IF output.status = "ioerr" THEN Err(IoErrText)
    ELSE Ok(\E i \in 1..Len(output.stdout) :
               Len(output.stdout[i]) = 2 /\ output.stdout[i][1] = "Hotspot")

\* is_hotspot_active, from the answer of its command
is_hotspot_active(output) ==
    IF output.status = "ioerr" THEN Err(IoErrText)
    ELSE LET rows == output.stdout
             hits == {i \in 1..Len(rows) : Len(rows[i]) = 2 /\ rows[i][1] = "Hotspot"}
         IN  IF hits = {} THEN Ok(FALSE)
             ELSE Ok(trim_field(rows[CHOOSE i \in hits : \A j \in hits : i <= j][2])
                        = "activated")

\* what the log keeps of a read-back
ActiveRead(r) == IF r.tag = "Ok" /\ r.val THEN <<"activated">> ELSE <<>>

HsValidate ==
    /\ op = "create_hotspot" /\ pc = "hs_validate"
    /\ IF validate(args.config).tag = "Err"
       THEN Return(validate(args.config))
       ELSE Goto("hs_check_device")
    /\ UNCHANGED <<ctl, log, last, loc, env, fs, cache, page>>

\* the device check after which the client connections are left alone
HsCheckDeviceThenCleanup ==
    /\ op = "create_hotspot" /\ pc = "hs_check_device"
    /\ \E o \in ListingOutputs(DeviceStatusListings) :
          /\ Issue(CmdDeviceStatus, o, Spawned(o), <<>>)
          /\ IF o.status = "ioerr" THEN Return(Err(IoErrText))
             ELSE IF check_device_exists(o.stdout, Iface).tag = "Err"
             THEN Return(check_device_exists(o.stdout, Iface))
             ELSE Goto("hs_clean_list")
    /\ UNCHANGED <<ctl, loc, env, fs, cache, page>>

HsCheckDevice ==
    /\ op = "create_hotspot" /\ pc = "hs_check_device"
    /\ \E o \in ListingOutputs(DeviceStatusListings) :
          /\ Issue(CmdDeviceStatus, o, Spawned(o), <<>>)
          /\ IF o.status = "ioerr" THEN Return(Err(IoErrText))
             ELSE IF check_device_exists(o.stdout, Iface).tag = "Err"
             THEN Return(check_device_exists(o.stdout, Iface))
             ELSE Goto("hs_disc_list")
    /\ UNCHANGED <<ctl, loc, env, fs, cache, page>>

\* disconnect_wifi_on_interface: the listing
HsDiscList ==
    /\ op = "create_hotspot" /\ pc = "hs_disc_list"
    /\ \E o \in ListingOutputs(SeqsUpTo(ActiveNDTRows, MaxActive)) :
          /\ Issue(CmdActiveNDT, o, Spawned(o), <<>>)
          /\ IF o.status = "ioerr"
             THEN Return(Err(IoErrText)) /\ todo' = todo
             ELSE LET names == NamesOf(o.stdout, {row \in ActiveNDTRows : DisconnectRow(Iface, row)})
                  IN  /\ todo' = names
                      /\ Goto(IF names = <<>> THEN "hs_clean_list" ELSE "hs_disc_down")
    /\ UNCHANGED <<ctl, err, device, env, fs, cache, page>>

\* disconnect_wifi_on_interface: one `connection down`, its outcome discarded
HsDiscDown ==
    /\ op = "create_hotspot" /\ pc = "hs_disc_down"
    /\ \E o \in PlainOutputs : Issue(CmdDown(Head(todo)), o, Discarded(o), <<>>)
    /\ todo' = Tail(todo)
    /\ Goto(IF Tail(todo) = <<>> THEN "hs_clean_list" ELSE "hs_disc_down")
    /\ UNCHANGED <<ctl, err, device, env, fs, cache, page>>

\* cleanup_shared_connections: the listing
HsCleanList ==
    /\ op = "create_hotspot" /\ pc = "hs_clean_list"
    /\ \E o \in ListingOutputs(SeqsUpTo(ActiveNTRows, MaxActive)) :
          /\ Issue(CmdActiveNT, o, Spawned(o), <<>>)
          /\ IF o.status = "ioerr"
             THEN Return(Err(IoErrText)) /\ todo' = todo
             ELSE LET names == NamesOf(o.stdout, {row \in ActiveNTRows : CleanupRow(row)})
                  IN  /\ todo' = names
                      /\ Goto(IF names = <<>> THEN "hs_exists" ELSE "hs_clean_show")
    /\ UNCHANGED <<ctl, err, device, env, fs, cache, page>>

\* cleanup_shared_connections: the detail look-up of one connection
HsCleanShow ==
    /\ op = "create_hotspot" /\ pc = "hs_clean_show"
    /\ \E o \in DetailOutputs :
          /\ Issue(CmdDetail(Head(todo)), o, Spawned(o), <<>>)
          /\ IF /\ o.status # "ioerr"
                /\ (contains(o.stdout, <<"shared">>) \/ contains(o.stdout, <<"ap">>))
             THEN Goto("hs_clean_down") /\ todo' = todo
             ELSE /\ todo' = Tail(todo)
                  /\ Goto(IF Tail(todo) = <<>> THEN "hs_exists" ELSE "hs_clean_show")
    /\ UNCHANGED <<ctl, err, device, env, fs, cache, page>>

\* cleanup_shared_connections: one `connection down`, its outcome discarded
HsCleanDown ==
    /\ op = "create_hotspot" /\ pc = "hs_clean_down"
    /\ \E o \in PlainOutputs : Issue(CmdDown(Head(todo)), o, Discarded(o), <<>>)
    /\ todo' = Tail(todo)
    /\ Goto(IF Tail(todo) = <<>> THEN "hs_exists" ELSE "hs_clean_show")
    /\ UNCHANGED <<ctl, err, device, env, fs, cache, page>>

\* where create_hotspot_on continues after the profile listing
HsAfterExistsNoStop(exists) == Goto("hs_add_fast")

HsAfterExists(exists) == Goto(IF exists THEN "stop_down" ELSE "hs_add_fast")

HsExists ==
    /\ op = "create_hotspot" /\ pc = "hs_exists"
    /\ \E o \in ListingOutputs(ProfileListings) :
          /\ Issue(CmdProfileList, o, Spawned(o),
                   IF o.status # "ioerr" /\ hotspot_connection_exists(o.stdout)
                   THEN <<"Hotspot">> ELSE <<>>)
          /\ IF o.status = "ioerr" THEN Return(Err(IoErrText))
             ELSE HsAfterExists(hotspot_connection_exists(o.stdout))
    /\ UNCHANGED <<ctl, loc, env, fs, cache, page>>

\* add_hotspot: the `dev wifi hotspot` command
HsAddFast ==
    /\ op = "create_hotspot" /\ pc = "hs_add_fast"
    /\ \E o \in PlainOutputs :
          /\ Issue(CmdHotspot(args.config, Iface), o, Status(o), <<>>)
          /\ profile' = IF o.status = "ok" THEN TRUE ELSE profile
          /\ IF o.status = "ioerr" THEN Return(Err(IoErrText))
             ELSE IF o.status = "ok" THEN Goto("hs_add_autoconnect")
             ELSE Goto("hs_add_manual")
    /\ UNCHANGED <<ctl, loc, prevStopOk, fs, cache, page>>

HsAddAutoconnect ==
    /\ op = "create_hotspot" /\ pc = "hs_add_autoconnect"
    /\ \E o \in PlainOutputs : Issue(CmdAutoconnect, o, Discarded(o), <<>>)
    /\ Goto(IF args.config.hidden THEN "hs_add_hidden" ELSE "hs_readback")
    /\ UNCHANGED <<ctl, loc, env, fs, cache, page>>

HsAddHidden ==
    /\ op = "create_hotspot" /\ pc = "hs_add_hidden"
    /\ \E o \in PlainOutputs : Issue(CmdHidden, o, Discarded(o), <<>>)
    /\ Goto("hs_readback")
    /\ UNCHANGED <<ctl, loc, env, fs, cache, page>>

HsAddManualUnchecked ==
    /\ op = "create_hotspot" /\ pc = "hs_add_manual"
    /\ \E o \in PlainOutputs :
          /\ Issue(CmdAddHotspot(args.config, Iface), o, Status(o), <<>>)
          /\ profile' = IF o.status = "ok" THEN TRUE ELSE profile
          /\ IF o.status = "ioerr" THEN Return(Err(IoErrText))
             ELSE Goto("hs_readback")
    /\ UNCHANGED <<ctl, loc, prevStopOk, fs, cache, page>>

\* add_hotspot: the manual `connection add`
HsAddManual ==
    /\ op = "create_hotspot" /\ pc = "hs_add_manual"
    /\ \E o \in PlainOutputs :
          /\ Issue(CmdAddHotspot(args.config, Iface), o, Status(o), <<>>)
          /\ profile' = IF o.status = "ok" THEN TRUE ELSE profile
          /\ IF o.status = "ioerr" THEN Return(Err(IoErrText))
             ELSE IF o.status # "ok"
             THEN Return(Err(Wrap("Failed to add hotspot: ", o.stderr)))
             ELSE Goto("hs_readback")
    /\ UNCHANGED <<ctl, loc, prevStopOk, fs, cache, page>>

\* create_hotspot_on after is_hotspot_active().await.unwrap_or(false)
HsAfterReadbackAlwaysUp(r) == Goto("hs_up1")

HsAfterReadback(r) ==
    IF r.tag = "Ok" /\ r.val THEN Return(Ok("unit")) ELSE Goto("hs_up1")

HsReadback ==
    /\ op = "create_hotspot" /\ pc = "hs_readback"
    /\ \E o \in ListingOutputs(ActiveNSListings) :
          /\ Issue(CmdActiveNS, o, Spawned(o), ActiveRead(is_hotspot_active(o)))
          /\ HsAfterReadback(is_hotspot_active(o))
    /\ UNCHANGED <<ctl, loc, env, fs, cache, page>>

\* activate_hotspot_fast: the first `connection up Hotspot`
HsUp1 ==
    /\ op = "create_hotspot" /\ pc = "hs_up1"
    /\ \E o \in PlainOutputs :
          /\ Issue(CmdUp("Hotspot"), o, Status(o), <<>>)
          /\ IF o.status = "ioerr" THEN Return(Err(IoErrText))
             ELSE IF o.status = "ok" THEN Goto("hs_verify1")
             ELSE Goto("hs_up2")
    /\ UNCHANGED <<ctl, loc, env, fs, cache, page>>

\* activate_hotspot_fast: is_hotspot_active().await? after a successful first attempt
HsVerify1 ==
    /\ op = "create_hotspot" /\ pc = "hs_verify1"
    /\ \E o \in ListingOutputs(ActiveNSListings) :
          LET r == is_hotspot_active(o)
          IN  /\ Issue(CmdActiveNS, o, Spawned(o), ActiveRead(r))
              /\ IF r.tag = "Err" THEN Return(r)
                 ELSE IF r.val THEN Return(Ok("unit"))
                 ELSE Goto("hs_up2")
    /\ UNCHANGED <<ctl, loc, env, fs, cache, page>>

\* activate_hotspot_fast: the retry
HsUp2 ==
    /\ op = "create_hotspot" /\ pc = "hs_up2"
    /\ \E o \in PlainOutputs :
          /\ Issue(CmdUp("Hotspot"), o, Status(o), <<>>)
          /\ IF o.status = "ioerr" THEN Return(Err(IoErrText))
             ELSE IF o.status # "ok"
             THEN Return(Err(Wrap("Failed to activate hotspot: ", o.stderr)))
             ELSE Goto("hs_verify2")
    /\ UNCHANGED <<ctl, loc, env, fs, cache, page>>

\* activate_hotspot_fast: is_hotspot_active().await? after the retry
HsVerify2 ==
    /\ op = "create_hotspot" /\ pc = "hs_verify2"
    /\ \E o \in ListingOutputs(ActiveNSListings) :
          LET r == is_hotspot_active(o)
          IN  /\ Issue(CmdActiveNS, o, Spawned(o), ActiveRead(r))
              /\ IF r.tag = "Err" THEN Return(r)
                 ELSE IF r.val THEN Return(Ok("unit"))
                 ELSE Return(Err(<<"Hotspot activation completed but not active">>))
    /\ UNCHANGED <<ctl, loc, env, fs, cache, page>>

(***************************************************************************)
(* config.rs: load_config and save_config.                                 *)
(***************************************************************************)
\* contents of the configuration file: absent, not JSON, or the JSON of a config
Missing == [kind |-> "missing", config |-> <<>>]
Garbage == [kind |-> "garbage", config |-> <<>>]
Json(config) == [kind |-> "json", config |-> config]
FileContents == {Missing, Garbage} \cup {Json(c) : c \in HotspotConfigs}

\* serde_json::to_string_pretty / serde_json::from_str
to_string_pretty(config) == Json(config)
from_str(content) ==
    IF content.kind = "json" THEN Ok(content.config)
    ELSE Err(<<"expected value at line 1 column 1">>)

\* load_config on a file with the given content
load_config(content) ==
    IF content.kind = "missing" THEN Err(IoErrText)
    ELSE IF from_str(content).tag = "Err" THEN from_str(content)
    ELSE IF validate(from_str(content).val).tag = "Err"
    THEN validate(from_str(content).val)
    ELSE Ok(from_str(content).val)

LoadConfig ==
    /\ op = "load_config" /\ pc = "load"
    /\ Return(load_config(file))
    /\ UNCHANGED <<ctl, log, last, loc, env, fs, cache, page>>

SaveValidate ==
    /\ op = "save_config" /\ pc = "save_validate"
    /\ IF validate(args.config).tag = "Err"
       THEN Return(validate(args.config))
       ELSE Goto("save_mkdir")
    /\ UNCHANGED <<ctl, log, last, loc, env, fs, cache, page>>

\* std::fs::create_dir_all(parent)?
SaveMkdir ==
    /\ op = "save_config" /\ pc = "save_mkdir"
    /\ \/ dir' = TRUE /\ Goto("save_write")
       \/ dir' = dir /\ Return(Err(<<"Permission denied (os error 13)">>))
    /\ UNCHANGED <<ctl, log, last, loc, env, file, cache, page>>

\* std::fs::write(path, json)?
SaveWrite ==
    /\ op = "save_config" /\ pc = "save_write"
    /\ \/ dir /\ file' = to_string_pretty(args.config) /\ Return(Ok("unit"))
       \/ file' = file /\ Return(Err(<<"Permission denied (os error 13)">>))
    /\ UNCHANGED <<ctl, log, last, loc, env, dir, cache, page>>

\* between two calls another program rewrites or removes the configuration
\* file; a call reads or writes the file in a single step
ExternalFileChange ==
    /\ op = "none"
    /\ \E c \in FileContents, d \in BOOLEAN :
          /\ c # Missing => d
          /\ <<c, d>> # <<file, dir>>
          /\ file' = c
          /\ dir' = d
    /\ UNCHANGED <<ctl, pc, log, last, loc, result, env, cache, page>>

(***************************************************************************)
(* nm.rs: disconnect_network and get_device_for_active_ssid.               *)
(***************************************************************************)
CmdWifiList == <<"-t", "-f", "SSID,DEVICE,ACTIVE", "dev", "wifi", "list">>
CmdDeviceDisconnect(dev) == <<"device", "disconnect", dev>>

\* rows of the live Wi-Fi table, split from the right at ':' into at most
\* three parts and put back in the order SSID, DEVICE, ACTIVE
WifiListRows ==
    {<<Ssid, "wlan0", "yes">>, <<Ssid, "wlan1", "no">>, <<"Guest", "wlan1", "yes">>,
     <<"wlan0", "yes">>}

get_device_for_active_ssid_any(output, ssid) ==
    IF output.status = "ioerr" THEN Err(IoErrText)
    ELSE LET rows == output.stdout
             hits == {i \in 1..Len(rows) : Len(rows[i]) = 3 /\ rows[i][1] = ssid}
         IN  IF hits = {} THEN Ok(<<>>)
             ELSE Ok(<<rows[CHOOSE i \in hits : \A j \in hits : i <= j][2]>>)

\* get_device_for_active_ssid, from the answer of its command: Ok(<<>>) is
\* Ok(None), Ok(<<d>>) is Ok(Some(d))
get_device_for_active_ssid(output, ssid) ==
    IF output.status = "ioerr" THEN Err(IoErrText)
    ELSE LET rows == output.stdout
             hits == {i \in 1..Len(rows) :
                         /\ Len(rows[i]) = 3
                         /\ rows[i][1] = ssid
                         /\ rows[i][3] = "yes"}
         IN  IF hits = {} THEN Ok(<<>>)
             ELSE Ok(<<rows[CHOOSE i \in hits : \A j \in hits : i <= j][2]>>)

\* disconnect_network: the connection-level `connection down`
DnDown ==
    /\ op = "disconnect_network" /\ pc = "dn_down"
    /\ \E o \in PlainOutputs :
          /\ Issue(CmdDown(Ssid), o, Status(o), IF o.status = "fail" THEN o.stderr ELSE <<>>)
          /\ IF o.status = "ioerr" THEN Return(Err(IoErrText))
             ELSE IF o.status = "ok" THEN Return(Ok("unit"))
             ELSE Goto("dn_list")
    /\ UNCHANGED <<ctl, loc, env, fs, cache, page>>

\* disconnect_network: get_device_for_active_ssid(ssid).await?
DnList ==
    /\ op = "disconnect_network" /\ pc = "dn_list"
    /\ \E o \in ListingOutputs(SeqsUpTo(WifiListRows, MaxRows)) :
          LET r == get_device_for_active_ssid(o, Ssid)
          IN  /\ Issue(CmdWifiList, o, Spawned(o), IF r.tag = "Ok" THEN r.val ELSE <<>>)
              /\ IF r.tag = "Err" THEN Return(r) /\ device' = device
                 ELSE IF r.val # <<>> THEN Goto("dn_device") /\ device' = r.val[1]
                 ELSE /\ Return(Err(Wrap("Failed to disconnect: ", log[1].read)))
                      /\ device' = device
    /\ UNCHANGED <<ctl, err, todo, env, fs, cache, page>>

\* disconnect_network: the device-level `device disconnect`
DnDevice ==
    /\ op = "disconnect_network" /\ pc = "dn_device"
    /\ \E o \in PlainOutputs :
          /\ Issue(CmdDeviceDisconnect(device), o, Status(o), <<>>)
          /\ IF o.status = "ioerr" THEN Return(Err(IoErrText))
             ELSE IF o.status = "ok" THEN Return(Ok("unit"))
             ELSE Return(Err(<<"Failed to disconnect device ", device, ": ">> \o o.stderr))
    /\ UNCHANGED <<ctl, loc, env, fs, cache, page>>

(***************************************************************************)
(* nm.rs: scan_networks.  A line of the listing is the sequence of its     *)
(* pieces: Colon, Space (a blank), or a text without colon that neither    *)
(* starts nor ends with a blank.  Such a text is <<"num", n>>, the decimal *)
(* numeral of n; <<"num MHz", n>>, the numeral followed by a unit;         *)
(* <<"txt", 0>>, a text without digits in the place of a number; or the    *)
(* sequence of its words.                                                  *)
(***************************************************************************)
Colon == <<":">>
Space == <<" ">>

\* str::trim on a line of the listing
trim_line(line) ==
    LET inked == {i \in 1..Len(line) : line[i] # Space}
    IN  IF inked = {} THEN <<>>
        ELSE SubSeq(line, CHOOSE i \in inked : \A j \in inked : i <= j,
                          CHOOSE i \in inked : \A j \in inked : i >= j)

\* str::rsplitn(n, ':'), collected: at most n parts, the rightmost first,
\* the last part being the rest of the line with its colons
rsplitn(n, line) ==
    LET colons == {i \in 1..Len(line) : line[i] = Colon}
        k == IF Cardinality(colons) < n - 1 THEN Cardinality(colons) ELSE n - 1
        Nth(j) == CHOOSE c \in colons : Cardinality({d \in colons : d > c}) = j - 1
    IN  [j \in 1..(k + 1) |->
            SubSeq(line, IF j = k + 1 THEN 1 ELSE Nth(j) + 1,
                         IF j = 1 THEN Len(line) ELSE Nth(j - 1) - 1)]

CmdScan ==
    <<"-t", "-f", "SSID,SIGNAL,SECURITY,ACTIVE,CHAN,FREQ", "dev", "wifi", "list",
      "--rescan", "yes">>

\* signal_str.parse::<u8>().unwrap_or(0)
parse_u8(f) == IF Len(f) = 1 /\ f[1][1] = "num" /\ f[1][2] <= 255 THEN f[1][2] ELSE 0

\* parse_u32_from_str: the digits of the field, 0 when there are none
parse_u32_from_str(f) ==
    IF Len(f) = 1 /\ f[1][1] \in {"num", "num MHz"} THEN f[1][2] ELSE 0

\* the band of a frequency in MHz
band_of(freq) ==
    IF freq >= 2400 /\ freq <= 2500 THEN "2.4 GHz"
    ELSE IF freq >= 4900 /\ freq <= 5900 THEN "5 GHz"
    ELSE IF freq >= 5925 /\ freq <= 7125 THEN "6 GHz"
    ELSE "Unknown"

\* the security label of the SECURITY field (a sequence of words)
security_type_of(security, secured) ==
    IF \E i \in 1..Len(security) : security[i] = "WPA3" THEN "WPA3"
    ELSE IF \E i \in 1..Len(security) : security[i] = "WPA2" THEN "WPA2"
    ELSE IF \E i \in 1..Len(security) : security[i] \in {"WPA", "WPA1"} THEN "WPA"
    ELSE IF \E i \in 1..Len(security) : security[i] = "WEP" THEN "WEP"
    ELSE IF secured THEN "Secured"
    ELSE "Open"

\* the words of the SECURITY field
words_of(security) == IF security = <<>> THEN <<>> ELSE security[1]

\* the WifiNetwork built from the six parts of a line, the rightmost first:
\* <<FREQ, CHAN, ACTIVE, SECURITY, SIGNAL, SSID>>
network_of(parts) ==
    LET secured == parts[4] # <<>> /\ parts[4] # << <<"--">> >>
        freq == parse_u32_from_str(parts[1])
    IN  [ssid |-> parts[6],
         signal |-> parse_u8(parts[5]),
         secured |-> secured,
         connected |-> (parts[3] = << <<"yes">> >>),
         band |-> band_of(freq),
         channel |-> parse_u32_from_str(parts[2]),
         freq_mhz |-> freq,
         security_type |-> security_type_of(words_of(parts[4]), secured)]

\* the line of a row
Row(ssid, signal, security, active, chan, freq) ==
    ssid \o <<Colon>> \o signal \o <<Colon>> \o security \o <<Colon>> \o active
         \o <<Colon>> \o chan \o <<Colon>> \o freq

Num(n) == << <<"num", n>> >>
MHz(n) == << <<"num MHz", n>> >>
Txt == << <<"txt", 0>> >>
Home == << <<"Home">> >>
Cafe == << <<"Cafe">> >>
Wpa2 == << <<"WPA2">> >>
No == << <<"no">> >>
Yes == << <<"yes">> >>

\* the rows a scan can list: among them a row without a name, a row of
\* five fields, a name with a colon in it and a name that starts with a
\* blank
ScanRows ==
    {Row(Home, Num(40), Wpa2, No, Num(1), MHz(2412)),
     Row(Home, Num(70), Wpa2, No, Num(1), MHz(2412)),
     Row(Home, Num(40), << <<"WPA1", "WPA2">> >>, Yes, Num(6), MHz(2437)),
     Row(Home, Num(70), << <<"WPA3">> >>, No, Num(36), MHz(5180)),
     Row(Cafe, Num(70), << <<"--">> >>, No, Num(1), MHz(2412)),
     Row(Cafe, Txt, <<>>, Yes, Txt, MHz(2412)),
     Row(<<>>, Num(90), Wpa2, No, Num(1), MHz(2412)),
     Home \o <<Colon>> \o Num(90) \o <<Colon>> \o Wpa2 \o <<Colon>> \o No \o <<Colon>> \o Num(1),
     Row(<< <<"My">>, Colon, <<"Net">> >>, Num(300), << <<"WEP">> >>, No, Num(1), Num(2412)),
     Row(<<Space, <<"Home">> >>, Num(40), Wpa2, No, Num(1), MHz(5180))}

ScanOutputs ==
    {IoErr, Failure(MsgPermission)} \cup {Listing(l) : l \in SeqsUpTo(ScanRows, MaxScan)}

replaces_if_stronger(network, existing) == network.signal > existing.signal

\* the arm Some(existing) of the match: network takes the place of existing
replaces(network, existing) ==
    \/ network.connected /\ ~existing.connected
    \/ network.connected = existing.connected /\ network.signal > existing.signal

\* the loop over the lines: networks_by_key, a function from the keys
\* <<ssid, band>> to the network kept
networks_by_key(rows) ==
    LET F[i \in 0..Len(rows)] ==
            IF i = 0 THEN [k \in {} |-> 0]
            ELSE IF trim_line(rows[i]) = <<>> THEN F[i - 1]
            ELSE IF Len(rsplitn(6, trim_line(rows[i]))) < 6 THEN F[i - 1]
            ELSE IF rsplitn(6, trim_line(rows[i]))[6] = <<>> THEN F[i - 1]
            ELSE LET network == network_of(rsplitn(6, trim_line(rows[i])))
                     key == <<network.ssid, network.band>>
                     m == F[i - 1]
                 IN  IF key \notin DOMAIN m
                     THEN [k \in DOMAIN m \cup {key} |-> IF k = key THEN network ELSE m[k]]
                     ELSE IF replaces(network, m[key])
                     THEN [m EXCEPT ![key] = network]
                     ELSE m
    IN  F[Len(rows)]

compare_ascending(a, b) ==
    IF a.connected /\ ~b.connected THEN "Less"
    ELSE IF ~a.connected /\ b.connected THEN "Greater"
    ELSE IF a.signal < b.signal THEN "Less"
    ELSE IF a.signal > b.signal THEN "Greater"
    ELSE "Equal"

\* the closure given to sort_by
compare(a, b) ==
    IF a.connected /\ ~b.connected THEN "Less"
    ELSE IF ~a.connected /\ b.connected THEN "Greater"
    ELSE IF b.signal < a.signal THEN "Less"
    ELSE IF b.signal > a.signal THEN "Greater"
    ELSE "Equal"

\* slice::sort_by, a stable sort: each element is put behind the elements
\* already placed that are not greater than it
sort_by(v) ==
    LET F[i \in 0..Len(v)] ==
            IF i = 0 THEN <<>>
            ELSE LET done == F[i - 1]
                     n == Cardinality({j \in 1..Len(done) : compare(done[j], v[i]) # "Greater"})
                 IN  SubSeq(done, 1, n) \o <<v[i]>> \o SubSeq(done, n + 1, Len(done))
    IN  F[Len(v)]

\* HashMap::into_values: the values in one of the orders a HashMap may
\* iterate in
into_values(m) ==
    {[i \in 1..Cardinality(DOMAIN m) |-> m[order[i]]] :
        order \in {f \in [1..Cardinality(DOMAIN m) -> DOMAIN m] :
                      \A i, j \in DOMAIN f : i # j => f[i] # f[j]}}

ScanNetworks ==
    /\ op = "scan_networks" /\ pc = "scan"
    /\ \E o \in ScanOutputs :
          /\ Issue(CmdScan, o, Status(o), <<>>)
          /\ IF o.status = "ioerr" THEN Return(Err(IoErrText))
             ELSE IF o.status # "ok"
             THEN Return(Err(Wrap("Failed to scan networks: ", o.stderr)))
             ELSE \E networks \in into_values(networks_by_key(o.stdout)) :
                     Return(Ok(sort_by(networks)))
    /\ UNCHANGED <<ctl, loc, env, fs, cache, page>>

(***************************************************************************)
(* nm.rs: get_network_info.  A line of a key-value answer is <<key, value>>*)
(* , what stands before and after its first colon, or <<text>> when it has *)
(* no colon.  An Option is <<>> for None and <<v>> for Some(v).  Of the    *)
(* NetworkInfo the fields that the profile and the device both can give    *)
(* are kept, with state and gateway for the fields of the device alone     *)
(* (address, mask, DNS, IPv6, speed and lease time are read like gateway). *)
(***************************************************************************)
CmdShow(name) == <<"-t", "connection", "show", name>>
CmdDeviceShow(dev) == <<"-t", "-f", "GENERAL,IP4,IP6,DHCP4", "device", "show", dev>>

\* str::trim on a key or a value
trim_value(v) == IF v = " " THEN "" ELSE IF v = "wifi " THEN "wifi" ELSE v

\* parse_key_value_output: a later line of a key takes the place of an
\* earlier one
parse_key_value_output(lines) ==
    LET F[i \in 0..Len(lines)] ==
            IF i = 0 THEN [k \in {} |-> ""]
            ELSE IF Len(lines[i]) < 2 THEN F[i - 1]
            ELSE LET key == trim_value(lines[i][1])
                     m == F[i - 1]
                 IN  [k \in DOMAIN m \cup {key} |->
                         IF k = key THEN trim_value(lines[i][2]) ELSE m[k]]
    IN  F[Len(lines)]

\* nmcli_key_value_map, from the answer of its command
nmcli_key_value_map(output) ==
    IF output.status = "ioerr" THEN Err(IoErrText)
    ELSE IF output.status # "ok" THEN Err(Wrap("nmcli failed: ", trim(output.stderr)))
    ELSE Ok(parse_key_value_output(output.stdout))

\* HashMap::get(key).cloned(), Option::or_else and
\* Option::filter(|v| !v.is_empty() && v != "--")
get(m, key) == IF key \in DOMAIN m THEN <<m[key]>> ELSE <<>>
or_else(a, b) == IF a # <<>> THEN a ELSE b
filter(a) == IF a # <<>> /\ a[1] # "" /\ a[1] # "--" THEN a ELSE <<>>

\* NetworkInfo::default()
NetworkInfoDefault ==
    [connection_type |-> <<>>, mac_address |-> <<>>, interface |-> <<>>,
     state |-> <<>>, uuid |-> <<>>, gateway |-> <<>>]

\* the assignments from the map of the saved profile
from_profile(info, connection_map) ==
    [info EXCEPT
        !.connection_type = filter(get(connection_map, "connection.type")),
        !.uuid = filter(get(connection_map, "connection.uuid")),
        !.mac_address =
            filter(or_else(get(connection_map, "802-11-wireless.seen-bssids"),
                           get(connection_map, "802-11-wireless.mac-address"))),
        !.interface = filter(get(connection_map, "connection.interface-name"))]

\* the assignments from the map of the device
from_device(info, device_map) ==
    [info EXCEPT
        !.interface = filter(or_else(get(device_map, "GENERAL.DEVICE"), info.interface)),
        !.state = filter(get(device_map, "GENERAL.STATE")),
        !.connection_type =
            filter(or_else(info.connection_type, get(device_map, "GENERAL.TYPE"))),
        !.mac_address =
            IF info.mac_address = <<>> THEN filter(get(device_map, "GENERAL.HWADDR"))
            ELSE info.mac_address,
        !.gateway = filter(get(device_map, "IP4.GATEWAY"))]

\* the assignments from the map of the profile the device names
from_active(info, connection_map) ==
    [info EXCEPT
        !.connection_type =
            filter(or_else(info.connection_type, get(connection_map, "connection.type"))),
        !.uuid = filter(or_else(info.uuid, get(connection_map, "connection.uuid"))),
        !.mac_address =
            IF info.mac_address = <<>>
            THEN filter(or_else(get(connection_map, "802-11-wireless.seen-bssids"),
                                get(connection_map, "802-11-wireless.mac-address")))
            ELSE info.mac_address]

\* answers of `connection show <ssid>`
ShowListings ==
    {<<>>,
     << <<"connection.type", "802-11-wireless">>, <<"connection.uuid", "$uuid">>,
        <<"connection.interface-name", "wlan0">>,
        <<"802-11-wireless.seen-bssids", "$bssids">>,
        <<"802-11-wireless.mac-address", "$mac">> >>,
     << <<"connection.interface-name", "wlan0">> >>,
     << <<"connection.type", "--">>, <<"connection.uuid", " ">>,
        <<"802-11-wireless.seen-bssids", "">>,
        <<"802-11-wireless.mac-address", "$mac">> >>,
     << <<"802-11-wireless.mac-address", "$mac">>, <<"connection.uuid", "$uuid">> >>,
     << <<"Warning">>, <<"connection.uuid", "--">>, <<"connection.uuid", "$uuid">> >>}

\* answers of `device show <device>`
DeviceListings ==
    {<<>>,
     << <<"GENERAL.DEVICE", "wlan0">>, <<"GENERAL.TYPE", "wifi ">>,
        <<"GENERAL.HWADDR", "$hwaddr">>, <<"GENERAL.STATE", "100 (connected)">>,
        <<"GENERAL.CONNECTION", "Home 1">>, <<"IP4.GATEWAY", "192.168.1.1">> >>,
     << <<"GENERAL.DEVICE", "--">>, <<"GENERAL.STATE", "30 (disconnected)">> >>,
     << <<"GENERAL.DEVICE", "">>, <<"GENERAL.CONNECTION", "--">>,
        <<"GENERAL.HWADDR", "--">> >>,
     << <<"GENERAL.TYPE", "wifi">>, <<"GENERAL.HWADDR", "$hwaddr">>,
        <<"IP4.GATEWAY", "--">> >>,
     << <<"GENERAL.CONNECTION", "Home 1">> >>}

\* answers of `connection show <name>` for the profile the device names
ActiveListings ==
    {<<>>,
     << <<"connection.type", "802-11-wireless">>, <<"connection.uuid", "$uuid1">>,
        <<"802-11-wireless.seen-bssids", "$bssids1">> >>,
     << <<"802-11-wireless.mac-address", "$mac1">> >>,
     << <<"connection.type", "--">>, <<"connection.uuid", "">> >>}

\* info as it is after the first lookup, and after the lookup of the device
InfoAfterProfile ==
    IF log[1].read = <<>> THEN NetworkInfoDefault
    ELSE from_profile(NetworkInfoDefault, log[1].read[1])
InfoAfterDevice == from_device(InfoAfterProfile, log[3].read[1])

\* get_network_info: the lookup of the saved profile
GiProfile ==
    /\ op = "get_network_info" /\ pc = "gi_profile"
    /\ \E o \in ListingOutputs(ShowListings) :
          LET r == nmcli_key_value_map(o)
          IN  Issue(CmdShow(Ssid), o, Status(o), IF r.tag = "Ok" THEN <<r.val>> ELSE <<>>)
    /\ Goto("gi_list")
    /\ UNCHANGED <<ctl, loc, env, fs, cache, page>>

\* get_network_info: get_device_for_active_ssid(ssid)
GiList ==
    /\ op = "get_network_info" /\ pc = "gi_list"
    /\ \E o \in ListingOutputs(SeqsUpTo(WifiListRows, MaxRows)) :
          LET r == get_device_for_active_ssid(o, Ssid)
          IN  /\ Issue(CmdWifiList, o, Spawned(o), IF r.tag = "Ok" THEN r.val ELSE <<>>)
              /\ IF r.tag = "Ok" /\ r.val # <<>>
                 THEN Goto("gi_device") /\ device' = r.val[1]
                 ELSE Return(Ok(InfoAfterProfile)) /\ device' = device
    /\ UNCHANGED <<ctl, err, todo, env, fs, cache, page>>

\* get_network_info: the lookup of the device
GiDevice ==
    /\ op = "get_network_info" /\ pc = "gi_device"
    /\ \E o \in ListingOutputs(DeviceListings) :
          LET r == nmcli_key_value_map(o)
          IN  /\ Issue(CmdDeviceShow(device), o, Status(o),
                       IF r.tag = "Ok" THEN <<r.val>> ELSE <<>>)
              /\ IF r.tag # "Ok" THEN Return(Ok(InfoAfterProfile))
                 ELSE LET info == from_device(InfoAfterProfile, r.val)
                          active_connection_name == filter(get(r.val, "GENERAL.CONNECTION"))
                      IN  IF /\ active_connection_name # <<>>
                             /\ \/ info.uuid = <<>>
                                \/ info.connection_type = <<>>
                                \/ info.mac_address = <<>>
                          THEN Goto("gi_active")
                          ELSE Return(Ok(info))
    /\ UNCHANGED <<ctl, loc, env, fs, cache, page>>

\* get_network_info: the lookup of the profile the device names
GiActive ==
    /\ op = "get_network_info" /\ pc = "gi_active"
    /\ \E o \in ListingOutputs(ActiveListings) :
          LET r == nmcli_key_value_map(o)
          IN  /\ Issue(CmdShow(log[3].read[1]["GENERAL.CONNECTION"]), o, Status(o),
                       IF r.tag = "Ok" THEN <<r.val>> ELSE <<>>)
              /\ IF r.tag # "Ok" THEN Return(Ok(InfoAfterDevice))
                 ELSE Return(Ok(from_active(InfoAfterDevice, r.val)))
    /\ UNCHANGED <<ctl, loc, env, fs, cache, page>>

(***************************************************************************)
(* ui/devices_page.rs: get_connected_devices; hotspot.rs:                  *)
(* get_connected_device_count.  A line is the sequence of its parts (what  *)
(* split_whitespace yields), each part a text.  The neighbour command, the *)
(* directory listing and every file read are logged with what the program  *)
(* took from them, and answer like a command: IoErr, or the lines.  The    *)
(* host name and the lease expiry of a device, on which no decision of the *)
(* discovery depends, are left out.                                        *)
(***************************************************************************)
\* str::ends_with, str::starts_with; the pattern is a whole fragment
ends_with(s, pat) == Len(s) > 0 /\ s[Len(s)] = pat
starts_with(s, pat) == Len(s) > 0 /\ s[1] = pat

CmdIpNeigh == <<"ip", "neigh", "show">>
nm_lease_dir == <<"/var/lib/NetworkManager">>
ReadDir(path) == <<"read_dir">> \o path
ReadToString(path) == <<"read_to_string">> \o path

fallback_paths ==
    << <<"/var/lib/dnsmasq/", "dnsmasq", ".leases">>,
       <<"/var/lib/misc/", "dnsmasq", ".leases">>,
       <<"/var/db/", "dnsmasq", ".leases">>,
       <<"/tmp/", "dnsmasq", ".leases">> >>

\* addresses and hardware addresses that show up in the tables
Ip2         == <<"192.168.50", ".2">>
Ip10        == <<"192.168.50", ".10">>
IpGateway   == <<"192.168.50", ".1">>
IpNetwork   == <<"192.168.50", ".0">>
IpLinkLocal == <<"fe80", "::a1">>
MacA == <<"aa:bb:cc:dd:ee:01">>
MacB == <<"aa:bb:cc:dd:ee:02">>

\* lines `ip neigh show` can print: two addresses of one station, the
\* gateway, a link-local address, an entry without hardware address
NeighLines ==
    {<<Ip2, <<"dev">>, <<"ap0">>, <<"lladdr">>, MacA, <<"REACHABLE">>>>,
     <<Ip10, <<"dev">>, <<"ap0">>, <<"lladdr">>, MacA, <<"STALE">>>>,
     <<IpGateway, <<"dev">>, <<"ap0">>, <<"lladdr">>, MacB, <<"REACHABLE">>>>,
     <<IpLinkLocal, <<"dev">>, <<"ap0">>, <<"lladdr">>, MacA, <<"STALE">>>>,
     <<Ip10, <<"dev">>, <<"ap0">>, <<"FAILED">>>>,
     <<Ip2, <<"dev">>, <<"ap0">>, <<"router">>, <<"INCOMPLETE">>>>}

\* the table holds an address once; the exit status of the command is not
\* looked at
NeighOutputs ==
    {IoErr} \cup {Listing(l) : l \in {t \in SeqsUpTo(NeighLines, MaxNeigh) :
                                         \A i, j \in 1..Len(t) : i # j => t[i][1] # t[j][1]}}

\* lines of a dnsmasq lease file: expiry, hardware address, address, name
LeaseLines ==
    {<<<<"1700000000">>, MacA, Ip2, <<"phone">>>>,
     <<<<"1700000600">>, MacA, Ip10, <<"*">>>>,
     <<<<"1700000000">>, MacB, IpGateway, <<"*">>>>,
     <<<<"1700000000">>, MacB, IpNetwork>>,
     <<<<"1700000000">>, MacB, IpLinkLocal, <<"*">>>>,
     <<<<"1700000000">>, MacB>>}

\* tokio::fs::read_to_string of a lease file; no line is there twice
LeaseFileOutputs ==
    {IoErr} \cup {Listing(l) : l \in {t \in SeqsUpTo(LeaseLines, MaxLease) :
                                         \A i, j \in 1..Len(t) : i # j => t[i] # t[j]}}

\* entries of /var/lib/NetworkManager
NmEntries ==
    {<<"dnsmasq-", "ap0", ".leases">>, <<"dnsmasq-", "wlan0", ".leases">>,
     <<"seen-bssids">>}

\* read_dir: the entries in the order the file system gives them; IoErr when
\* the path is not a directory or cannot be listed
NmDirOutputs ==
    {IoErr} \cup {Listing(l) : l \in {e \in SeqsUpTo(NmEntries, Cardinality(NmEntries)) :
                                         \A i, j \in 1..Len(e) : i # j => e[i] # e[j]}}

is_lease_name(name_str) ==
    starts_with(name_str, "dnsmasq-") /\ ends_with(name_str, ".leases")

ConnectedDevice(ip, mac) == [ip |-> ip, mac |-> mac]

\* concatenation of the sequences of ss
Flatten(ss) ==
    LET F[i \in 0..Len(ss)] == IF i = 0 THEN <<>> ELSE F[i - 1] \o ss[i]
    IN  F[Len(ss)]

\* position of the first part "lladdr", 0 if there is none
lladdr_position(parts) ==
    IF \E i \in 1..Len(parts) : parts[i] = <<"lladdr">>
    THEN CHOOSE i \in 1..Len(parts) :
            /\ parts[i] = <<"lladdr">>
            /\ \A j \in 1..(i - 1) : parts[j] # <<"lladdr">>
    ELSE 0

\* get_connected_devices, the loop over the lines of the neighbour table
neigh_devices(lines) ==
    Flatten([n \in 1..Len(lines) |->
        LET parts == lines[n]
            ip == parts[1]
            idx == lladdr_position(parts)
        IN  IF /\ Len(parts) >= 5
               /\ idx > 0 /\ idx + 1 <= Len(parts)
               /\ ~ends_with(ip, ".1") /\ ~ends_with(ip, ".0")
               /\ ~starts_with(ip, "fe80")
            THEN <<ConnectedDevice(ip, parts[idx + 1])>>
            ELSE <<>>])

\* get_connected_device_count, the loop over the lines of the neighbour
\* table; the addresses in the order they are inserted into the set
neigh_ips(lines) ==
    Flatten([n \in 1..Len(lines) |->
        LET parts == lines[n]
            ip == parts[1]
        IN  IF Len(parts) < 5 THEN <<>>
            ELSE IF ends_with(ip, ".1") \/ ends_with(ip, ".0") \/ starts_with(ip, "fe80")
            THEN <<>>
            ELSE IF \E i \in 1..Len(parts) : parts[i] = <<"lladdr">> THEN <<ip>>
            ELSE <<>>])

\* devices_page.rs parse_lease_content: the devices pushed for one file
parse_lease_content(content) ==
    Flatten([n \in 1..Len(content) |->
        LET parts == content[n]
        IN  IF Len(parts) < 3 THEN <<>>
            ELSE IF ends_with(parts[3], ".1") \/ ends_with(parts[3], ".0") THEN <<>>
            ELSE <<ConnectedDevice(parts[3], parts[2])>>])

\* hotspot.rs parse_lease_content: the addresses inserted for one file
parse_lease_content_ips(content) ==
    Flatten([n \in 1..Len(content) |->
        LET parts == content[n]
            ip == parts[3]
        IN  IF Len(parts) < 3 THEN <<>>
            ELSE IF ends_with(ip, ".1") \/ ends_with(ip, ".0") \/ starts_with(ip, "fe80")
            THEN <<>>
            ELSE <<ip>>])

DiscoveryOps == {"get_connected_devices", "get_connected_device_count"}

\* what the operation in progress takes from the neighbour table and from
\* a lease file
FromNeigh(lines) ==
    IF op = "get_connected_devices" THEN neigh_devices(lines) ELSE neigh_ips(lines)
FromLease(content) ==
    IF op = "get_connected_devices" THEN parse_lease_content(content)
    ELSE parse_lease_content_ips(content)

\* everything taken so far: the Vec `devices`, the HashSet `ips` in
\* insertion order
Gathered(l) == Flatten([i \in 1..Len(l) |-> l[i].read])

\* Ok(devices), Ok(ips.len())
Found(found) ==
    IF op = "get_connected_devices" THEN Ok(found)
    ELSE Ok(Cardinality({found[i] : i \in 1..Len(found)}))

AfterNeighAlwaysLeases(found) ==
    Goto("lease_dir")

\* `if devices.is_empty()`, `if ips.is_empty()`: the lease files are looked
\* at only when the neighbour table gave nothing
AfterNeigh(found) ==
    IF found # <<>> THEN Return(Found(found)) ELSE Goto("lease_dir")

NeighShow ==
    /\ op \in DiscoveryOps /\ pc = "neigh"
    /\ \E o \in NeighOutputs :
          LET found == IF o.status = "ioerr" THEN <<>> ELSE FromNeigh(o.stdout)
          IN  /\ Issue(CmdIpNeigh, o, Spawned(o), found)
              /\ AfterNeigh(found)
    /\ UNCHANGED <<ctl, loc, env, fs, cache, page>>

\* get_devices_from_leases, collect_ips_from_leases: the listing of the
\* NetworkManager directory; the lease files in it are visited in turn
LeaseDir ==
    /\ op \in DiscoveryOps /\ pc = "lease_dir"
    /\ \E o \in NmDirOutputs :
          LET names == SelectSeq(o.stdout, is_lease_name)
          IN  /\ Issue(ReadDir(nm_lease_dir), o, Spawned(o), <<>>)
              /\ IF names # <<>> THEN Goto("lease_nm") /\ todo' = names
                 ELSE IF Gathered(log) # <<>>
                 THEN Return(Found(Gathered(log))) /\ todo' = <<>>
                 ELSE Goto("lease_fallback") /\ todo' = fallback_paths
    /\ UNCHANGED <<ctl, err, device, env, fs, cache, page>>

\* one lease file of the NetworkManager directory; after the last one the
\* call returns if anything has been gathered
LeaseNm ==
    /\ op \in DiscoveryOps /\ pc = "lease_nm" /\ todo # <<>>
    /\ \E o \in LeaseFileOutputs :
          LET read == IF o.status = "ioerr" THEN <<>> ELSE FromLease(o.stdout)
              path == nm_lease_dir \o <<"/">> \o Head(todo)
              done == Append(log, Entry(ReadToString(path), Spawned(o), read))
          IN  /\ Issue(ReadToString(path), o, Spawned(o), read)
              /\ IF Tail(todo) # <<>> THEN Goto("lease_nm") /\ todo' = Tail(todo)
                 ELSE IF Gathered(done) # <<>>
                 THEN Return(Found(Gathered(done))) /\ todo' = <<>>
                 ELSE Goto("lease_fallback") /\ todo' = fallback_paths
    /\ UNCHANGED <<ctl, err, device, env, fs, cache, page>>

\* the fallback paths in their fixed order, up to the first file that
\* gives anything
LeaseFallback ==
    /\ op \in DiscoveryOps /\ pc = "lease_fallback" /\ todo # <<>>
    /\ \E o \in LeaseFileOutputs :
          LET read == IF o.status = "ioerr" THEN <<>> ELSE FromLease(o.stdout)
              done == Append(log, Entry(ReadToString(Head(todo)), Spawned(o), read))
          IN  /\ Issue(ReadToString(Head(todo)), o, Spawned(o), read)
              /\ IF o.status # "ioerr" /\ Gathered(done) # <<>>
                 THEN Return(Found(Gathered(done))) /\ todo' = <<>>
                 ELSE IF Tail(todo) = <<>>
                 THEN Return(Found(Gathered(done))) /\ todo' = <<>>
                 ELSE Goto("lease_fallback") /\ todo' = Tail(todo)
    /\ UNCHANGED <<ctl, err, device, env, fs, cache, page>>

(***************************************************************************)
(* ui/devices_page.rs: vendor_from_mac, oui_map, load_oui_map.  The table  *)
(* lives in a process-wide OnceLock; the lookups of several threads        *)
(* interleave step by step.  A hexadecimal text is a sequence of fragments *)
(* of two digits each and of separators.                                   *)
(***************************************************************************)
Threads == 1..MaxThreads

\* fragments of two hexadecimal digits, with their upper-case form
HexTab ==
    [f \in {"aa", "bb", "cc", "dd", "ee", "ff", "01", "AA", "BB", "CC", "DD",
            "EE", "FF"} |->
        CASE f = "aa" -> "AA" [] f = "bb" -> "BB" [] f = "cc" -> "CC"
          [] f = "dd" -> "DD" [] f = "ee" -> "EE" [] f = "ff" -> "FF"
          [] OTHER -> f]

is_ascii_hexdigit(f) == f \in DOMAIN HexTab

\* normalize_oui: the first six hexadecimal digits in upper case, <<>> for
\* None
normalize_oui(prefix) ==
    LET hex == SelectSeq(prefix, is_ascii_hexdigit)
    IN  IF 2 * Len(hex) < 6 THEN <<>>
        ELSE << [i \in 1..3 |-> HexTab[hex[i]]] >>

normalize_mac_prefix(mac) == normalize_oui(mac)

\* str::split_once: the text before and after the first pat, <<>> for None
split_once(line, pat) ==
    IF \E i \in 1..Len(line) : line[i] = pat
    THEN LET at == CHOOSE i \in 1..Len(line) :
                      line[i] = pat /\ \A j \in 1..(i - 1) : line[j] # pat
         IN  << <<SubSeq(line, 1, at - 1), SubSeq(line, at + 1, Len(line))>> >>
    ELSE <<>>

\* parse_oui_content: the map after the lines of content have been inserted
\* into map
parse_oui_content(content, map) ==
    LET F[n \in 0..Len(content)] ==
            IF n = 0 THEN map
            ELSE LET line == trim(content[n])
                     hex == split_once(line, "(hex)")
                     base == split_once(line, "(base 16)")
                     halves == IF hex # <<>> THEN hex ELSE base
                 IN  IF line = <<>> \/ halves = <<>> THEN F[n - 1]
                     ELSE LET oui == normalize_oui(halves[1][1])
                              vendor == trim(halves[1][2])
                          IN  IF oui = <<>> \/ vendor = <<>> THEN F[n - 1]
                              ELSE [k \in DOMAIN F[n - 1] \cup {oui[1]} |->
                                       IF k = oui[1] THEN vendor ELSE F[n - 1][k]]
    IN  F[Len(content)]

\* the paths load_oui_map tries, in their order
OuiPaths ==
    <<"/usr/share/hwdata/oui.txt", "/usr/share/misc/oui.txt",
      "/usr/share/ieee-data/oui.txt", "/var/lib/ieee-data/oui.txt">>

\* lines of a vendor database
OuiLines ==
    {<<"AA", "-", "BB", "-", "CC", " ", "(hex)", " ", "Acme">>,
     <<"aa", "bb", "cc", " ", "(base 16)", " ", "Other">>,
     <<"OUI/MA-L", " ", "Organization">>,
     <<"AA", "-", "BB", " ", "(hex)", " ", "Short">>,
     <<"DD", "-", "EE", "-", "FF", " ", "(hex)", " ">>}

\* std::fs::read_to_string of a vendor database; the files may be replaced
\* between one read and the next
OuiFileOutputs == {IoErr} \cup {Listing(l) : l \in SeqsUpTo(OuiLines, MaxOuiLines)}

\* hardware addresses the lookups are made with
LookupMacs ==
    {<<"aa", ":", "bb", ":", "cc", ":", "dd", ":", "ee", ":", "01">>,
     <<"DD", ":", "EE", ":", "FF", ":", "aa", ":", "bb", ":", "cc">>,
     <<"aa", ":", "bb">>}

\* a thread that is not inside vendor_from_mac
Idle == [pc |-> "idle", oui |-> <<>>, path |-> 0, seen |-> <<>>, ret |-> <<>>]

\* the reference oui_map returns: <<m>> for the table m
SeenTable(m) == <<m>>

\* HashMap::get(&oui).cloned()
get_cloned(m, oui) == IF oui \in DOMAIN m THEN <<m[oui]>> ELSE <<>>

\* vendor_from_mac is entered: an address with fewer than six hexadecimal
\* digits gives None before the table is asked for
VendorFromMac(t) ==
    /\ lookup[t].pc = "idle"
    /\ \E mac \in LookupMacs :
          LET oui == normalize_mac_prefix(mac)
          IN  lookup' = [lookup EXCEPT ![t] =
                  IF oui = <<>> THEN [Idle EXCEPT !.pc = "return"]
                  ELSE [Idle EXCEPT !.pc = "oui_map", !.oui = oui[1]]]
    /\ looked' = TRUE
    /\ UNCHANGED <<OUI_MAP, loaded, call, page>>

is_initialized_never(cell) == FALSE

\* OnceLock::is_initialized
is_initialized(cell) == cell.state = "init"

\* OUI_MAP.get_or_init(load_oui_map): the value if there is one; else the
\* first thread to come runs load_oui_map and the others wait for it
GetOrInit(t) ==
    /\ lookup[t].pc = "oui_map"
    /\ IF is_initialized(OUI_MAP)
       THEN /\ lookup' = [lookup EXCEPT ![t].pc = "get", ![t].seen = SeenTable(OUI_MAP.value)]
            /\ UNCHANGED <<OUI_MAP, loaded>>
       ELSE /\ OUI_MAP.state # "running"
            /\ Len(loaded) < MaxLoads
            /\ OUI_MAP' = [OUI_MAP EXCEPT !.state = "running"]
            /\ lookup' = [lookup EXCEPT ![t].pc = "load", ![t].path = 1]
            /\ loaded' = loaded
    /\ UNCHANGED <<looked, call, page>>

\* load_oui_map: one path is read; the first path that gives a non-empty
\* map ends the loop, and the map becomes the value of the cell
LoadOuiMap(t) ==
    /\ lookup[t].pc = "load"
    /\ \E o \in OuiFileOutputs :
          LET map == IF o.status = "ioerr" THEN <<>>
                     ELSE parse_oui_content(o.stdout, <<>>)
          IN  IF map = <<>> /\ lookup[t].path < Len(OuiPaths)
              THEN /\ lookup' = [lookup EXCEPT ![t].path = @ + 1]
                   /\ UNCHANGED <<OUI_MAP, loaded>>
              ELSE /\ OUI_MAP' = [state |-> "init", value |-> map]
                   /\ loaded' = Append(loaded, map)
                   /\ lookup' = [lookup EXCEPT ![t].pc = "get", ![t].path = 0,
                                               ![t].seen = SeenTable(map)]
    /\ UNCHANGED <<looked, call, page>>

\* .get(&oui).cloned() on the table oui_map returned
GetVendor(t) ==
    /\ lookup[t].pc = "get"
    /\ lookup' = [lookup EXCEPT ![t].pc = "return",
                                ![t].ret = get_cloned(lookup[t].seen[1], lookup[t].oui)]
    /\ UNCHANGED <<OUI_MAP, loaded, looked, call, page>>

\* the caller takes the vendor
VendorReturn(t) ==
    /\ lookup[t].pc = "return"
    /\ lookup' = [lookup EXCEPT ![t] = Idle]
    /\ UNCHANGED <<OUI_MAP, loaded, looked, call, page>>

(***************************************************************************)
(* nm.rs: parse_ipv4_cidr.  The prefix is a text of one-character          *)
(* fragments; a 32-bit number is given by its bits.                        *)
(***************************************************************************)
DigitTab ==
    [d \in {"0", "1", "2", "3", "4", "5", "6", "7", "8", "9"} |->
        CASE d = "0" -> 0 [] d = "1" -> 1 [] d = "2" -> 2 [] d = "3" -> 3
          [] d = "4" -> 4 [] d = "5" -> 5 [] d = "6" -> 6 [] d = "7" -> 7
          [] d = "8" -> 8 [] d = "9" -> 9]

\* the decimal digits of n, as format!("{}", n) writes them
RECURSIVE to_decimal(_)
to_decimal(n) ==
    LET d == CHOOSE c \in DOMAIN DigitTab : DigitTab[c] = n % 10
    IN  IF n < 10 THEN <<d>> ELSE to_decimal(n \div 10) \o <<d>>

\* the value of a text of decimal digits
RECURSIVE decimal_value(_)
decimal_value(s) ==
    IF s = <<>> THEN 0
    ELSE 10 * decimal_value(SubSeq(s, 1, Len(s) - 1)) + DigitTab[s[Len(s)]]

\* str::parse::<u8>().ok(): an optional plus sign and at least one digit, no
\* more than 255; <<>> for None
parse_u8_ok(s) ==
    LET digits == IF s # <<>> /\ s[1] = "+" THEN Tail(s) ELSE s
    IN  IF digits = <<>> \/ \E i \in 1..Len(digits) : digits[i] \notin DOMAIN DigitTab
        THEN <<>>
        ELSE IF decimal_value(digits) > 255 THEN <<>>
        ELSE <<decimal_value(digits)>>

\* a u32 is the function from its bit positions, 0 the lowest, to 0 and 1
all_ones == [i \in 0..31 |-> 1]
zero_u32 == [i \in 0..31 |-> 0]

\* u32 << n and u32 >> n for n below 32
shl(x, n) == [i \in 0..31 |-> IF i >= n THEN x[i - n] ELSE 0]
shr(x, n) == [i \in 0..31 |-> IF i + n <= 31 THEN x[i + n] ELSE 0]

\* x & 0xff, as a number
and_0xff(x) ==
    x[0] + 2 * x[1] + 4 * x[2] + 8 * x[3] + 16 * x[4] + 32 * x[5] + 64 * x[6]
        + 128 * x[7]

mask_of_prefix_shift_only(prefix) ==
    shl(all_ones, (32 - prefix) % 32)

\* the mask of parse_ipv4_cidr for a prefix of at most 32
mask_of_prefix(prefix) ==
    IF prefix = 0 THEN zero_u32 ELSE shl(all_ones, 32 - prefix)

\* format!("{}.{}.{}.{}", ...) of the four octets of mask
mask_str(mask) ==
    to_decimal(and_0xff(shr(mask, 24))) \o <<".">> \o to_decimal(and_0xff(shr(mask, 16)))
        \o <<".">> \o to_decimal(and_0xff(shr(mask, 8))) \o <<".">>
        \o to_decimal(and_0xff(mask))

\* Option<(String, String)>: <<>> for None, <<(ip, mask)>> for Some
parse_ipv4_cidr(cidr) ==
    LET halves == split_once(trim(cidr), "/")
    IN  IF halves = <<>> THEN <<>>
        ELSE LET prefix == parse_u8_ok(halves[1][2])
             IN  IF prefix = <<>> THEN <<>>
                 ELSE IF prefix[1] > 32 THEN <<>>
                 ELSE << <<halves[1][1], mask_str(mask_of_prefix(prefix[1]))>> >>

\* values of IP4.ADDRESS[1]: every prefix up to MaxPrefix, and texts that
\* are no address with a prefix
CidrAddress == <<"192.168.50.7">>
CidrInputs ==
    {CidrAddress \o <<"/">> \o to_decimal(p) : p \in 0..MaxPrefix}
        \cup {CidrAddress \o <<"/">> \o t :
                 t \in {<<"2", "5", "5">>, <<"2", "5", "6">>, <<"3", "0", "0">>,
                        <<"0", "2", "4">>, <<"+", "2", "4">>, <<"-", "1">>, <<"+">>,
                        <<>>, <<"2", "x">>, <<"2", "4", "/", "8">>, <<" ", "2", "4">>,
                        <<"2", "4", " ">>}}
        \cup {CidrAddress, <<" ">> \o CidrAddress \o <<"/", "1", "6", "\n">>,
              <<"/", "8">>, <<>>}

ParseIpv4Cidr ==
    /\ op = "parse_ipv4_cidr" /\ pc = "cidr"
    /\ Return(Ok(parse_ipv4_cidr(args.cidr)))
    /\ UNCHANGED <<ctl, log, last, loc, env, fs, cache, page>>

(***************************************************************************)
(* ui/devices_page.rs: device_kind_for.  A keyword is a sequence of whole  *)
(* fragments.  The vendor is what the table of oui_map holds for the       *)
(* prefix of the address.                                                  *)
(***************************************************************************)
\* keywords of device_kind_from_hostname, in the order of its tests
HostnameKeywords ==
    << [kind |-> "Phone",
        words |-> {<<"phone">>, <<"android">>, <<"i", "phone">>, <<"ipad">>,
                   <<"pixel">>, <<"galaxy">>, <<"mobile">>, <<"tablet">>}],
       [kind |-> "Tv",
        words |-> {<<"tv">>, <<"roku">>, <<"chromecast">>, <<"fire", "tv">>,
                   <<"bravia">>, <<"hisense">>, <<"samsung">>, <<"lg">>,
                   <<"philips">>, <<"tcl">>, <<"vizio">>}],
       [kind |-> "Computer",
        words |-> {<<"laptop">>, <<"desktop">>, <<"pc">>, <<"macbook">>,
                   <<"thinkpad">>, <<"surface">>}],
       [kind |-> "Iot",
        words |-> {<<"speaker">>, <<"echo">>, <<"nest">>, <<"homepod">>,
                   <<"sonos">>}] >>

\* keywords of device_kind_from_vendor, in the order of its tests
VendorKeywords ==
    << [kind |-> "Tv",
        words |-> {<<"roku">>, <<"chromecast">>, <<"vizio">>, <<"hisense">>,
                   <<"tcl">>, <<"panasonic">>, <<"philips">>, <<"sharp">>,
                   <<"toshiba">>, <<"lg", " electronics">>}],
       [kind |-> "Phone",
        words |-> {<<"apple">>, <<"samsung">>, <<"huawei">>, <<"xiaomi">>,
                   <<"oneplus">>, <<"oppo">>, <<"vivo">>, <<"google">>,
                   <<"motorola">>, <<"nokia">>, <<"sony">>, <<"htc">>}],
       [kind |-> "Computer",
        words |-> {<<"dell">>, <<"lenovo">>, <<"asus">>, <<"acer">>,
                   <<"hewlett">>, <<"hp">>, <<"intel">>, <<"microsoft">>,
                   <<"msi">>, <<"gigabyte">>, <<"framework">>, <<"system76">>}],
       [kind |-> "Iot",
        words |-> {<<"amazon">>, <<"ring">>, <<"nest">>, <<"sonos">>, <<"bose">>,
                   <<"ubiquiti">>}] >>

\* the kind of the first group of keywords one of which the lower-cased
\* text contains, <<>> for None
kind_from_keywords(groups, text) ==
    LET lower == to_lowercase(text)
        hits == {g \in 1..Len(groups) : \E w \in groups[g].words : contains(lower, w)}
    IN  IF hits = {} THEN <<>>
        ELSE <<groups[CHOOSE g \in hits : \A h \in hits : g <= h].kind>>

device_kind_from_hostname(hostname) == kind_from_keywords(HostnameKeywords, hostname)
device_kind_from_vendor(vendor) == kind_from_keywords(VendorKeywords, vendor)

\* u8::from_str_radix of a fragment of two hexadecimal digits
HexValue ==
    [f \in DOMAIN HexTab |->
        CASE HexTab[f] = "AA" -> 170 [] HexTab[f] = "BB" -> 187
          [] HexTab[f] = "CC" -> 204 [] HexTab[f] = "DD" -> 221
          [] HexTab[f] = "EE" -> 238 [] HexTab[f] = "FF" -> 255
          [] HexTab[f] = "01" -> 1]

is_locally_administered(mac) ==
    LET hex == SelectSeq(mac, is_ascii_hexdigit)
    IN  IF 2 * Len(hex) < 2 THEN FALSE
        ELSE (HexValue[hex[1]] \div 2) % 2 # 0

\* Option<String> host names of a device: <<>> is None
Hostnames ==
    {<<>>, << <<"i", "Phone">> >>, << <<"Samsung">> >>,
     << <<"Samsung", "-", "Phone">> >>, << <<"My", "-", "Laptop">> >>,
     << <<"Echo", "-", "dot">> >>, << <<"host", "-", "7">> >>}

\* vendors a table may hold
Vendors ==
    {<<"Roku", ", Inc.">>, <<"Apple", ", Inc.">>, <<"Samsung", " Electronics">>,
     <<"LG", " Electronics">>, <<"Dell", " Inc.">>, <<"Sonos">>, <<"Espressif">>}

\* tables oui_map may return: empty, or one vendor for the prefixes of the
\* addresses of the model
VendorTables ==
    {<<>>} \cup {[k \in {<<"AA", "BB", "CC">>, <<"DD", "EE", "FF">>} |-> v] : v \in Vendors}

\* hardware addresses of a device: "aa" is 10101010, "DD" is 11011101
KindMacs == LookupMacs \cup {<<>>, <<"01", ":", "bb", ":", "cc", ":", "dd", ":", "ee", ":", "ff">>}

CmdVendorFromMac == <<"vendor_from_mac">>

\* device_kind_for: the host name decides if it matches
DkHostname ==
    /\ op = "device_kind_for" /\ pc = "dk_hostname"
    /\ LET hostname == args.device.hostname
           kind == IF hostname = <<>> THEN <<>>
                   ELSE device_kind_from_hostname(hostname[1])
       IN  IF kind # <<>> THEN Return(Ok(kind[1])) ELSE Goto("dk_vendor")
    /\ UNCHANGED <<ctl, log, last, loc, env, fs, cache, page>>

kind_after_hostname_bit_first(vendor, mac) ==
    IF is_locally_administered(mac) THEN "Phone"
    ELSE IF vendor # <<>> /\ device_kind_from_vendor(vendor[1]) # <<>>
    THEN device_kind_from_vendor(vendor[1])[1]
    ELSE "Unknown"

\* device_kind_for after the host name: the vendor, then the bit, then
\* Unknown
kind_after_hostname(vendor, mac) ==
    IF vendor # <<>> /\ device_kind_from_vendor(vendor[1]) # <<>>
    THEN device_kind_from_vendor(vendor[1])[1]
    ELSE IF is_locally_administered(mac) THEN "Phone"
    ELSE "Unknown"

\* device_kind_for: vendor_from_mac is asked, and the rest follows
DkVendor ==
    /\ op = "device_kind_for" /\ pc = "dk_vendor"
    /\ \E table \in VendorTables :
          LET oui == normalize_mac_prefix(args.device.mac)
              vendor == IF oui = <<>> THEN <<>> ELSE get_cloned(table, oui[1])
          IN  /\ log' = Append(log, Entry(CmdVendorFromMac, "ran", vendor))
              /\ Return(Ok(kind_after_hostname(vendor, args.device.mac)))
    /\ UNCHANGED <<ctl, last, loc, env, fs, cache, page>>

(***************************************************************************)
(* ui/hotspot_page.rs: the hotspot page.  The futures spawned on the main  *)
(* loop run one at a time, each from one await to the next; `tasks` is the *)
(* bag of the futures that wait at an await.                               *)
(***************************************************************************)
Task(l, active) == [pc |-> l, active |-> active]

\* HotspotPage::new: the cells as constructed, set_wifi_state(false, false),
\* and the first future, which loads the interfaces and the status
PageNew ==
    [hotspot_switch        |-> FALSE,
     is_active             |-> FALSE,
     wifi_present          |-> FALSE,
     wifi_enabled          |-> FALSE,
     operation_in_progress |-> FALSE,
     devices               |-> 0,      \* shared borrows of the RefCell alive
     panicked              |-> FALSE,  \* a borrow_mut met a live borrow
     tasks                 |-> SetToBag({Task("load_interfaces", FALSE)})]

Pending(p) == BagCardinality(p.tasks)

Spawn(p, t) == [p EXCEPT !.tasks = @ (+) SetToBag({t})]
Ended(p, t) == [p EXCEPT !.tasks = @ (-) SetToBag({t})]
Await(p, t, l) == Spawn(Ended(p, t), Task(l, t.active))

\* hotspot_switch.set_active(v): when the property changes, both handlers of
\* connect_active_notify run; the first spawns its future, the second only
\* when the switch and is_active differ
set_active(p, v) ==
    IF p.hotspot_switch = v THEN p
    ELSE LET q == Spawn([p EXCEPT !.hotspot_switch = v], Task("handler", v))
         IN  IF v = q.is_active THEN q ELSE Spawn(q, Task("handler_compat", v))

\* self.devices.borrow_mut() as a temporary
borrow_mut(p) == IF p.devices > 0 THEN [p EXCEPT !.panicked = TRUE] ELSE p

\* start_hotspot from the borrow of the device list to the await of
\* create_hotspot_on
start_from_borrow(p, t) ==
    Await([p EXCEPT !.devices = @ + 1], t, "create_hotspot_on")

\* start_hotspot from the validation of the configuration
start_from_validate(p, t, valid) ==
    IF ~valid
    THEN Ended([set_active(p, FALSE) EXCEPT !.operation_in_progress = FALSE], t)
    ELSE start_from_borrow(p, t)

\* start_hotspot up to its first await, without the test of the flag
start_hotspot_unguarded(p, t, empty, valid) ==
    IF ~p.wifi_present \/ ~p.wifi_enabled THEN Ended(set_active(p, FALSE), t)
    ELSE LET q == [p EXCEPT !.operation_in_progress = TRUE]
         IN  IF empty THEN Await(q, t, "resolve_password")
             ELSE start_from_validate(q, t, valid)

\* start_hotspot up to its first await; empty: the password entry is empty,
\* valid: the configuration is valid
start_hotspot(p, t, empty, valid) ==
    IF p.operation_in_progress THEN Ended(p, t)
    ELSE IF ~p.wifi_present \/ ~p.wifi_enabled THEN Ended(set_active(p, FALSE), t)
    ELSE LET q == [p EXCEPT !.operation_in_progress = TRUE]
         IN  IF empty THEN Await(q, t, "resolve_password")
             ELSE start_from_validate(q, t, valid)

\* stop_hotspot of the page up to its first await
page_stop_hotspot(p, t) ==
    IF p.operation_in_progress THEN Ended(p, t)
    ELSE Await([p EXCEPT !.operation_in_progress = TRUE], t, "stop_hotspot")

\* refresh_status up to its first await
refresh_status(p, t) ==
    IF ~p.wifi_present
    THEN Ended(set_active([p EXCEPT !.is_active = FALSE], FALSE), t)
    ELSE Await(p, t, "is_hotspot_active")

\* set_wifi_state
set_wifi_state(p, present, enabled) ==
    LET q == [p EXCEPT !.wifi_present = present, !.wifi_enabled = enabled]
    IN  IF ~present THEN set_active(borrow_mut(q), FALSE) ELSE q

Running(t) == ~page.panicked /\ BagIn(t, page.tasks)

\* what a step of a future makes of the page; after a panic nothing runs
Becomes(p) ==
    /\ page' = p
    /\ UNCHANGED <<call, cache>>

\* the user flips the switch, which is sensitive when Wi-Fi is there and on
SwitchToggled ==
    /\ ~page.panicked
    /\ page.wifi_present /\ page.wifi_enabled
    /\ Pending(page) + 2 <= MaxTasks
    /\ Becomes(set_active(page, ~page.hotspot_switch))

\* the 3-second timer spawns load_interfaces and refresh_status
InterfaceTimer ==
    /\ ~page.panicked
    /\ Pending(page) + 1 <= MaxTasks
    /\ Becomes(Spawn(page, Task("load_interfaces", FALSE)))

\* the future of the first handler of the switch
SwitchHandler ==
    \E t \in BagToSet(page.tasks), empty, valid \in BOOLEAN :
        /\ Running(t) /\ t.pc = "handler"
        /\ Becomes(IF t.active /\ ~page.is_active
                   THEN start_hotspot(page, t, empty, valid)
                   ELSE IF ~t.active /\ page.is_active
                   THEN page_stop_hotspot(page, t)
                   ELSE Ended(page, t))

\* the future of the second handler of the switch
SwitchHandlerCompat ==
    \E t \in BagToSet(page.tasks), empty, valid \in BOOLEAN :
        /\ Running(t) /\ t.pc = "handler_compat"
        /\ Becomes(IF t.active THEN start_hotspot(page, t, empty, valid)
                   ELSE page_stop_hotspot(page, t))

\* start_hotspot after resolve_password_for_storage
StartResolved ==
    \E t \in BagToSet(page.tasks), valid \in BOOLEAN :
        /\ Running(t) /\ t.pc = "resolve_password"
        /\ Becomes(start_from_validate(page, t, valid))

\* start_hotspot after create_hotspot_on: the match, the reset of the flag
\* and the end of the borrow
StartCreated ==
    \E t \in BagToSet(page.tasks), ok \in BOOLEAN :
        /\ Running(t) /\ t.pc = "create_hotspot_on"
        /\ LET p == IF ok THEN [page EXCEPT !.is_active = TRUE]
                    ELSE set_active([page EXCEPT !.is_active = FALSE], FALSE)
           IN  Becomes(Ended([p EXCEPT !.operation_in_progress = FALSE,
                                       !.devices = @ - 1], t))

\* stop_hotspot of the page after hotspot::stop_hotspot
StopStopped ==
    \E t \in BagToSet(page.tasks), ok \in BOOLEAN :
        /\ Running(t) /\ t.pc = "stop_hotspot"
        /\ Becomes(IF ok
                   THEN Ended([page EXCEPT !.is_active = FALSE,
                                           !.operation_in_progress = FALSE], t)
                   ELSE Await(page, t, "stop_readback"))

\* stop_hotspot of the page after the read-back that follows a failed stop
StopReadback ==
    \E t \in BagToSet(page.tasks), ok, active \in BOOLEAN :
        /\ Running(t) /\ t.pc = "stop_readback"
        /\ LET p == IF ok THEN set_active([page EXCEPT !.is_active = active], active)
                    ELSE page
           IN  Becomes(Ended([p EXCEPT !.operation_in_progress = FALSE], t))

\* load_interfaces after its three look-ups, then refresh_status to its await
LoadInterfaces ==
    \E t \in BagToSet(page.tasks), present, enabled \in BOOLEAN :
        /\ Running(t) /\ t.pc = "load_interfaces"
        /\ LET p == borrow_mut(page)
           IN  Becomes(IF p.panicked THEN p
                       ELSE LET q == set_wifi_state(p, present, enabled)
                            IN  IF q.panicked THEN q ELSE refresh_status(q, t))

\* refresh_status after is_hotspot_active
RefreshStatus ==
    \E t \in BagToSet(page.tasks), ok, active \in BOOLEAN :
        /\ Running(t) /\ t.pc = "is_hotspot_active"
        /\ LET a == ok /\ active
           IN  Becomes(Ended(set_active([page EXCEPT !.is_active = a], a), t))

(***************************************************************************)
(* Calls, returns, and what happens outside the program.                   *)
(***************************************************************************)
Start(o, a, l) ==
    /\ op = "none"
    /\ op' = o
    /\ args' = a
    /\ pc' = l
    /\ log' = <<>>
    /\ last' = Success
    /\ result' = NoResult
    /\ prevStopOk' = (o = "stop_hotspot" /\ prevStopOk)
    /\ UNCHANGED <<loc, profile, fs, cache, page>>

CallConnectOpen == Start("connect_open", NoArgs, "open_first")

CallConnectSecured ==
    \E h \in SecurityHints : Start("connect_secured", [NoArgs EXCEPT !.hint = h], "sec_first")

CallActivateSaved == Start("activate_saved", NoArgs, "as_up1")

CallStopHotspot == Start("stop_hotspot", NoArgs, "stop_down")

CallDisconnectNetwork == Start("disconnect_network", NoArgs, "dn_down")

CallCreateHotspot ==
    \E c \in HotspotConfigs : Start("create_hotspot", [NoArgs EXCEPT !.config = c], "hs_validate")

CallSaveConfig ==
    \E c \in SaveConfigs : Start("save_config", [NoArgs EXCEPT !.config = c], "save_validate")

CallLoadConfig == Start("load_config", NoArgs, "load")

CallScanNetworks == Start("scan_networks", NoArgs, "scan")

CallParseIpv4Cidr ==
    \E c \in CidrInputs : Start("parse_ipv4_cidr", [NoArgs EXCEPT !.cidr = c], "cidr")

CallDeviceKindFor ==
    \E h \in Hostnames, m \in KindMacs :
        Start("device_kind_for",
              [NoArgs EXCEPT !.device = [hostname |-> h, mac |-> m]], "dk_hostname")

CallGetConnectedDevices == Start("get_connected_devices", NoArgs, "neigh")

CallGetConnectedDeviceCount == Start("get_connected_device_count", NoArgs, "neigh")

\* the caller takes the result; the program is idle again
Finish ==
    /\ op # "none" /\ pc = "done"
    /\ op' = "none"
    /\ pc' = "idle"
    /\ args' = NoArgs
    /\ log' = <<>>
    /\ last' = Success
    /\ err' = <<>>
    /\ device' = ""
    /\ todo' = <<>>
    /\ result' = NoResult
    /\ prevStopOk' = (op = "stop_hotspot" /\ result.tag = "Ok")
    /\ UNCHANGED <<profile, fs, cache, page>>

\* another tool creates or deletes the profile "Hotspot", at any moment but
\* the one in which a call hands its result to the caller
ExternalProfileChange ==
    /\ pc # "done"
    /\ profile' = ~profile
    /\ prevStopOk' = FALSE
    /\ UNCHANGED <<ctl, pc, log, last, loc, result, fs, cache, page>>

Init ==
    /\ op = "none"
    /\ pc = "idle"
    /\ args = NoArgs
    /\ log = <<>>
    /\ last = Success
    /\ err = <<>>
    /\ device = ""
    /\ todo = <<>>
    /\ result = NoResult
    /\ profile \in BOOLEAN
    /\ prevStopOk = FALSE
    /\ file = Missing
    /\ dir = FALSE
    /\ OUI_MAP = [state |-> "uninit", value |-> <<>>]
    /\ lookup = [t \in Threads |-> Idle]
    /\ loaded = <<>>
    /\ looked = FALSE
    /\ page = PageNew

Next ==
    \/ CallConnectOpen \/ OpenFirst \/ OpenRescan \/ OpenRetry
    \/ CallConnectSecured \/ SecuredFirst \/ SecuredRescan \/ SecuredRetry
    \/ KmDevice \/ KmAdd \/ KmModify
    \/ CallActivateSaved \/ AsUp1 \/ AsRescan \/ AsUp2
    \/ CallStopHotspot \/ StopDown \/ StopDelete
    \/ CallDisconnectNetwork \/ DnDown \/ DnList \/ DnDevice
    \/ CallCreateHotspot \/ HsValidate \/ HsCheckDevice
    \/ HsDiscList \/ HsDiscDown \/ HsCleanList \/ HsCleanShow \/ HsCleanDown
    \/ HsExists \/ HsAddFast \/ HsAddAutoconnect \/ HsAddHidden \/ HsAddManual
    \/ HsReadback \/ HsUp1 \/ HsVerify1 \/ HsUp2 \/ HsVerify2
    \/ Finish \/ ExternalProfileChange

Spec == Init /\ [][Next]_vars

\* the steps of the operations: each is one subprocess call that returns,
\* after which the operation is polled again
Step ==
    \/ OpenFirst \/ OpenRescan \/ OpenRetry
    \/ SecuredFirst \/ SecuredRescan \/ SecuredRetry
    \/ KmDevice \/ KmAdd \/ KmModify
    \/ AsUp1 \/ AsRescan \/ AsUp2
    \/ StopDown \/ StopDelete
    \/ DnDown \/ DnList \/ DnDevice
    \/ HsValidate \/ HsCheckDevice
    \/ HsDiscList \/ HsDiscDown \/ HsCleanList \/ HsCleanShow \/ HsCleanDown
    \/ HsExists \/ HsAddFast \/ HsAddAutoconnect \/ HsAddHidden \/ HsAddManual
    \/ HsReadback \/ HsUp1 \/ HsVerify1 \/ HsUp2 \/ HsVerify2

\* the operations alone, no other tool touching the profiles, when every
\* subprocess call returns
NextLive ==
    \/ CallConnectOpen \/ CallConnectSecured \/ CallActivateSaved
    \/ CallStopHotspot \/ CallDisconnectNetwork \/ CallCreateHotspot
    \/ Step \/ Finish

SpecLive == Init /\ [][NextLive]_vars /\ WF_vars(Step)

\* the configuration store: save_config, load_config and the validation
\* with which create_hotspot_on starts
NextConfig ==
    \/ CallSaveConfig \/ SaveValidate \/ SaveMkdir \/ SaveWrite
    \/ CallLoadConfig \/ LoadConfig
    \/ CallCreateHotspot \/ HsValidate
    \/ Finish \/ ExternalFileChange

SpecConfig == Init /\ [][NextConfig]_vars

\* the Wi-Fi scan
NextScan == CallScanNetworks \/ ScanNetworks \/ Finish

SpecScan == Init /\ [][NextScan]_vars

\* the discovery of the devices attached to the hotspot
NextDevices ==
    \/ CallGetConnectedDevices \/ CallGetConnectedDeviceCount
    \/ NeighShow \/ LeaseDir \/ LeaseNm \/ LeaseFallback
    \/ Finish

SpecDevices == Init /\ [][NextDevices]_vars

\* the decomposition of an address with prefix length
NextCidr == CallParseIpv4Cidr \/ ParseIpv4Cidr \/ Finish

SpecCidr == Init /\ [][NextCidr]_vars

\* the classification of a device
NextKind == CallDeviceKindFor \/ DkHostname \/ DkVendor \/ Finish

SpecKind == Init /\ [][NextKind]_vars

\* the vendor lookups of the threads of the process
NextOui ==
    \E t \in Threads :
        \/ VendorFromMac(t) \/ GetOrInit(t) \/ LoadOuiMap(t)
        \/ GetVendor(t) \/ VendorReturn(t)

SpecOui == Init /\ [][NextOui]_vars

\* the hotspot page: the user, the timer and the futures on the main loop
NextPage ==
    \/ SwitchToggled \/ InterfaceTimer
    \/ SwitchHandler \/ SwitchHandlerCompat
    \/ StartResolved \/ StartCreated \/ StopStopped \/ StopReadback
    \/ LoadInterfaces \/ RefreshStatus

SpecPage == Init /\ [][NextPage]_vars

CallGetNetworkInfo == Start("get_network_info", NoArgs, "gi_profile")

\* the details of one network
NextInfo == CallGetNetworkInfo \/ GiProfile \/ GiList \/ GiDevice \/ GiActive \/ Finish

SpecInfo == Init /\ [][NextInfo]_vars

(***************************************************************************)
(* Properties of the command log.                                          *)
(***************************************************************************)
\* positions of the log that hold the command line c
At(c) == {i \in 1..Len(log) : log[i].argv = c}

\* positions of the direct-connect attempts
DirectConnects == At(CmdConnectOpen) \cup At(CmdConnectSecured)

\* an interrupted-connection or SSID-not-found error text
Transient(text) ==
    is_connection_interrupted_error(text) \/ is_network_not_found_error(text)

Connecting == op \in {"connect_open", "connect_secured"}

\* C1, as stated: in connect_open_network and connect_secured_network a
\* rescan is issued only as the second command, right after a first
\* direct-connect attempt that failed with an interrupted or not-found error;
\* it is issued at most once and is followed by exactly one more
\* direct-connect attempt, after which the call has returned.
C1_RescanOnlyAfterDirectConnect ==
    Connecting =>
        /\ Cardinality(At(CmdRescan)) <= 1
        /\ \A i \in At(CmdRescan) :
              /\ i = 2
              /\ 1 \in DirectConnects
              /\ log[1].st = "fail"
              /\ Transient(log[1].read)
              /\ Len(log) <= 3
              /\ Len(log) = 3 => 3 \in DirectConnects
              /\ Len(log) = 3 <=> pc = "done"

\* C1, amended: a call issues at most one rescan, and a second direct-connect
\* attempt only after a rescan.  The rescan follows either the first
\* direct-connect attempt, failed with an interrupted or not-found error, and
\* is then followed by exactly one more direct-connect attempt; or, in the
\* key-management fallback of connect_secured_network, the first
\* "connection up" of the saved profile, failed with an interrupted error,
\* and is then followed by exactly one more "connection up".  The command
\* after the rescan is the last of the call, whatever its outcome.
C1_RescanOncePerCall ==
    Connecting =>
        /\ Cardinality(At(CmdRescan)) <= 1
        /\ Cardinality(DirectConnects) <= 2
        /\ At(CmdRescan) = {} => Cardinality(DirectConnects) <= 1
        /\ \A i \in At(CmdRescan) :
              /\ i > 1
              /\ log[i - 1].st = "fail"
              /\ \/ /\ i = 2
                    /\ 1 \in DirectConnects
                    /\ Transient(log[1].read)
                    /\ Len(log) = 3 => 3 \in DirectConnects
                 \/ /\ op = "connect_secured"
                    /\ is_key_mgmt_missing_error(log[1].read)
                    /\ At(CmdUp(Ssid)) \cap 1..i = {i - 1}
                    /\ is_connection_interrupted_error(log[i - 1].read)
                    /\ Len(log) = i + 1 => log[i + 1].argv = CmdUp(Ssid)
              /\ Len(log) <= i + 1
              /\ Len(log) = i + 1 <=> pc = "done"

\* connect_secured_network has rescanned and retried, and the retry failed
\* with a transient error: the call has returned that failure
C1_Witness ==
    /\ op = "connect_secured" /\ pc = "done"
    /\ At(CmdRescan) = {2}
    /\ Len(log) = 3
    /\ log[3].st = "fail" /\ Transient(log[3].read)
    /\ result.tag = "Err"

\* the text mentions "enqueued" in any letter case
MentionsEnqueued(text) ==
    \E i \in 1..Len(text) : to_lowercase(text)[i] = "enqueued"

\* C2: whenever a direct-connect attempt of connect_open_network, the first
\* or the one after the rescan, exits non-zero with a message that contains
\* "enqueued" in any letter case, the call has returned Queued, so that no
\* further command follows.
C2_EnqueuedIsQueued ==
    (/\ op = "connect_open"
     /\ log # <<>>
     /\ log[Len(log)].argv = CmdConnectOpen
     /\ last.status = "fail"
     /\ MentionsEnqueued(nmcli_error_text(last)))
        => pc = "done" /\ result = Ok("Queued")

\* the retry after the rescan printed "Activation was ENQUEUED"
C2_Witness ==
    /\ op = "connect_open" /\ pc = "done"
    /\ Len(log) = 3
    /\ last = Failure(MsgEnqueuedUp)
    /\ result = Ok("Queued")

\* the text mentions both "key-mgmt" and "missing" in any letter case
MentionsKeyMgmtMissing(text) ==
    /\ \E i \in 1..Len(text) : to_lowercase(text)[i] = "key-mgmt"
    /\ \E i \in 1..Len(text) : to_lowercase(text)[i] = "missing"

\* the first direct-connect attempt of connect_secured_network failed with
\* a missing key-management parameter
KeyMgmtFallback ==
    /\ op = "connect_secured"
    /\ log # <<>>
    /\ log[1].argv = CmdConnectSecured
    /\ log[1].st = "fail"
    /\ MentionsKeyMgmtMissing(log[1].read)

\* the answer to the device listing names no usable Wi-Fi device
NoUsableWifi(o) ==
    \/ o.status # "ok"
    \/ ~\E i \in 1..Len(o.stdout) :
           /\ Len(o.stdout[i]) >= 3
           /\ o.stdout[i][2] = "wifi"
           /\ o.stdout[i][3] # "unavailable"

IsAddProfile(argv) == SubSeq(argv, 1, 2) = <<"connection", "add">>
IsModify(argv)     == SubSeq(argv, 1, 2) = <<"connection", "modify">>

IsCreate(argv) ==
    \/ SubSeq(argv, 1, 3) = <<"dev", "wifi", "hotspot">>
    \/ SubSeq(argv, 1, 2) = <<"connection", "add">>

\* C4: in create_hotspot_on, what the call reads from the profile listing is
\* whether the listing has a row "Hotspot", and every create command issued
\* after a listing that reported "Hotspot" is preceded, after that listing,
\* by a "connection delete Hotspot".
C4_DeleteBeforeCreate ==
    op = "create_hotspot" =>
        /\ (/\ log # <<>>
            /\ log[Len(log)].argv = CmdProfileList
            /\ last.status # "ioerr")
              => (log[Len(log)].read = <<"Hotspot">>
                    <=> \E i \in 1..Len(last.stdout) : last.stdout[i] = "Hotspot")
        /\ \A j \in At(CmdProfileList) :
              log[j].read = <<"Hotspot">> =>
                 \A i \in (j + 1)..Len(log) :
                    IsCreate(log[i].argv) =>
                       \E k \in (j + 1)..(i - 1) : log[k].argv = CmdDeleteHotspot

\* the listing reported "Hotspot", the delete was refused, and the hotspot
\* was created all the same
C4_Witness ==
    /\ op = "create_hotspot" /\ pc = "done" /\ result.tag = "Ok"
    /\ \E j \in At(CmdProfileList) :
          /\ log[j].read = <<"Hotspot">>
          /\ log[j + 2].argv = CmdDeleteHotspot
          /\ log[j + 2].st = "fail"
          /\ IsCreate(log[j + 3].argv)

\* the answer to the connection-state listing shows "Hotspot" as activated
ReportsActivated(o) ==
    /\ o.status # "ioerr"
    /\ \E i \in 1..Len(o.stdout) : o.stdout[i] = <<"Hotspot", "activated">>

\* C5: create_hotspot_on issues at most two "connection up Hotspot"; when it
\* returns success, the last command of the call is a connection-state
\* listing whose answer shows "Hotspot" as activated, made after a create
\* command that succeeded.
C5_SuccessNeedsReadback ==
    op = "create_hotspot" =>
        /\ Cardinality(At(CmdUp("Hotspot"))) <= 2
        /\ (pc = "done" /\ result.tag = "Ok") =>
              /\ log # <<>>
              /\ log[Len(log)].argv = CmdActiveNS
              /\ ReportsActivated(last)
              /\ \E i \in 1..(Len(log) - 1) : IsCreate(log[i].argv) /\ log[i].st = "ok"

\* success after two activation attempts
C5_Witness ==
    /\ op = "create_hotspot" /\ pc = "done" /\ result.tag = "Ok"
    /\ Cardinality(At(CmdUp("Hotspot"))) = 2

\* C6, as stated: after each "connection up Hotspot" that ran, whether it
\* exited zero or non-zero, the next command of create_hotspot_on is the
\* connection-state listing, and the call does not return before it.
C6_ReadbackAfterEveryAttempt ==
    op = "create_hotspot" =>
        \A i \in At(CmdUp("Hotspot")) :
            log[i].st # "ioerr" =>
                /\ Len(log) > i => log[i + 1].argv = CmdActiveNS
                /\ Len(log) = i => pc # "done"

\* the answer to the delete reports an unknown connection
ReportsUnknownConnection(o) ==
    o.status = "fail" /\ contains(o.stderr, <<"Error: unknown connection">>)

\* C7: stop_hotspot issues "connection down Hotspot" and then "connection
\* delete Hotspot" and nothing else; it returns only after the delete,
\* whatever became of the deactivation; it succeeds exactly when the delete
\* succeeded or reported an unknown connection; and a stop_hotspot that
\* follows a successful one, and whose delete could be run, succeeds.
C7_StopHotspot ==
    op = "stop_hotspot" =>
        /\ Len(log) <= 2
        /\ Len(log) >= 1 => log[1].argv = CmdDown("Hotspot")
        /\ Len(log) >= 2 => log[2].argv = CmdDeleteHotspot
        /\ pc = "done" <=> Len(log) = 2
        /\ pc = "done" =>
              /\ result.tag = "Ok" <=> (last.status = "ok" \/ ReportsUnknownConnection(last))
              /\ (prevStopOk /\ last.status # "ioerr") => result.tag = "Ok"

\* the second of two stops in a row: the delete reported an unknown
\* connection and the call succeeded
C7_Witness ==
    /\ op = "stop_hotspot" /\ pc = "done"
    /\ prevStopOk
    /\ last = Failure(MsgUnknownConn)
    /\ result = Ok("unit")

\* printable ASCII
Printable(s) == \A i \in 1..Len(s) : s[i] \in 32..126

\* a valid hotspot configuration: an SSID of 1 to 32 printable ASCII
\* characters, a password that is empty or 8 to 63 printable ASCII characters
ValidConfig(c) ==
    /\ Len(c.ssid) \in 1..32 /\ Printable(c.ssid)
    /\ c.password = <<>> \/ (Len(c.password) \in 8..63 /\ Printable(c.password))

\* C8: save_config with an invalid configuration returns an error and no
\* step of it creates the directory or writes the file; load_config never
\* returns an invalid configuration, and returns an error when the file holds
\* one; create_hotspot_on with an invalid configuration issues no command and
\* returns an error.
C8_InvalidConfigRejected ==
    /\ [](/\ (op = "save_config" /\ ~ValidConfig(args.config) /\ pc = "done")
                => result.tag = "Err"
          /\ (op = "load_config" /\ pc = "done" /\ result.tag = "Ok")
                => ValidConfig(result.val)
          /\ (/\ op = "load_config" /\ pc = "done"
              /\ file.kind = "json" /\ ~ValidConfig(file.config))
                => result.tag = "Err"
          /\ (op = "create_hotspot" /\ ~ValidConfig(args.config))
                => /\ log = <<>>
                   /\ pc \in {"hs_validate", "done"}
                   /\ pc = "done" => result.tag = "Err")
    /\ [][(op = "save_config" /\ ~ValidConfig(args.config)) => UNCHANGED fs]_vars

\* save_config was called with an invalid configuration and has returned an
\* error; there is neither a directory nor a file
C8_Witness ==
    /\ op = "save_config" /\ pc = "done"
    /\ ~ValidConfig(args.config)
    /\ result.tag = "Err"
    /\ file = Missing /\ ~dir

\* the device listing has a row for the interface with the type "wifi"
WifiInterfaceListed(rows, iface) ==
    \E i \in 1..Len(rows) :
        /\ Len(rows[i]) >= 2
        /\ rows[i][1] = iface
        /\ rows[i][2] \in {"wifi", "wifi "}

\* C9: the device listing is the first command of create_hotspot_on, and
\* when its answer has no row of type "wifi" for the target interface, the
\* call has returned an error with that listing as its only command.
C9_DeviceErrorIsFatal ==
    (op = "create_hotspot" /\ log # <<>>) =>
        /\ log[1].argv = CmdDeviceStatus
        /\ (/\ Len(log) = 1
            /\ last.status # "ioerr"
            /\ ~WifiInterfaceListed(last.stdout, Iface))
              => pc = "done" /\ result.tag = "Err"

\* the interface is listed as an ethernet device
C9_Witness ==
    /\ op = "create_hotspot" /\ pc = "done"
    /\ Len(log) = 1
    /\ last = Listing(<< <<Iface, "ethernet">> >>)
    /\ result.tag = "Err"

\* C10: in create_hotspot_on, when the connection-state listing that follows
\* the creation shows "Hotspot" as activated, the call has returned success,
\* no "connection up Hotspot" having been issued.
C10_ActiveAfterCreate ==
    (/\ op = "create_hotspot"
     /\ log # <<>>
     /\ log[Len(log)].argv = CmdActiveNS
     /\ At(CmdUp("Hotspot")) = {}
     /\ ReportsActivated(last))
        => pc = "done" /\ result = Ok("unit")

\* the fast path created the hotspot and the read-back found it activated
C10_Witness ==
    /\ op = "create_hotspot" /\ pc = "done" /\ result = Ok("unit")
    /\ At(CmdUp("Hotspot")) = {}
    /\ \E i \in 1..Len(log) :
          log[i].argv = CmdHotspot(args.config, Iface) /\ log[i].st = "ok"

\* positions of the fast-path and of the manual creation command
FastCreates   == {i \in 1..Len(log) : SubSeq(log[i].argv, 1, 3) = <<"dev", "wifi", "hotspot">>}
ManualCreates == {i \in 1..Len(log) : SubSeq(log[i].argv, 1, 2) = <<"connection", "add">>}

\* C11: in create_hotspot_on the manual "connection add" is issued exactly
\* when the fast "dev wifi hotspot" command ran and exited non-zero, as the
\* command right after it; when the manual creation fails too, the call has
\* returned that failure and no "connection up Hotspot" is in the log.
C11_ManualOnlyAfterFastFailed ==
    op = "create_hotspot" =>
        /\ \A i \in ManualCreates : i - 1 \in FastCreates /\ log[i - 1].st = "fail"
        /\ \A i \in FastCreates :
              /\ (log[i].st = "fail" /\ Len(log) > i) => i + 1 \in ManualCreates
              /\ (log[i].st = "fail" /\ Len(log) = i) => pc # "done"
        /\ \A i \in ManualCreates :
              log[i].st # "ok" =>
                 /\ Len(log) = i
                 /\ pc = "done"
                 /\ At(CmdUp("Hotspot")) = {}
                 /\ result = IF last.status = "ioerr" THEN Err(IoErrText)
                             ELSE Err(Wrap("Failed to add hotspot: ", last.stderr))

\* the fast path and the manual creation both exited non-zero
C11_Witness ==
    /\ op = "create_hotspot" /\ pc = "done"
    /\ \E i \in ManualCreates : log[i].st = "fail" /\ log[i - 1].st = "fail"
    /\ result = Err(Wrap("Failed to add hotspot: ", MsgPermission))

\* C12: activate_saved_connection issues "connection up", and only after a
\* first activation that failed with an interrupted-connection error a
\* rescan and then a second "connection up", and nothing more; it has
\* returned Connected when the first activation or the retry exited zero.
C12_ActivateSaved ==
    op = "activate_saved" =>
        /\ Len(log) <= 3
        /\ Cardinality(At(CmdUp(Ssid))) <= 2
        /\ Cardinality(At(CmdRescan)) <= 1
        /\ Len(log) >= 1 => log[1].argv = CmdUp(Ssid)
        /\ Len(log) >= 2 =>
              /\ log[2].argv = CmdRescan
              /\ log[1].st = "fail"
              /\ is_connection_interrupted_error(log[1].read)
        /\ Len(log) >= 3 => log[3].argv = CmdUp(Ssid)
        /\ (Len(log) \in {1, 3} /\ last.status = "ok")
              => pc = "done" /\ result = Ok("Connected")

\* the first activation was interrupted and the retry connected
C12_Witness ==
    /\ op = "activate_saved" /\ pc = "done"
    /\ Len(log) = 3
    /\ log[1].read = trim(MsgInterrupted)
    /\ result = Ok("Connected")

\* the text matches none of the phrases the program knows
Unmatched(text) ==
    /\ ~MentionsEnqueued(text)
    /\ ~MentionsKeyMgmtMissing(text)
    /\ ~\E i \in 1..Len(text) :
           to_lowercase(text)[i] \in {"connection was interrupted",
                                      "network could not be found", "not found"}
    /\ ~contains(to_lowercase(text), <<"no network with ", "ssid">>)

\* C14: in connect_open_network, connect_secured_network and
\* activate_saved_connection, when the first command exits non-zero with a
\* message that matches none of the known phrases, the call has returned a
\* failure whose text contains that message, the log holding that one
\* command only.
C14_UnmatchedIsFatal ==
    (/\ op \in {"connect_open", "connect_secured", "activate_saved"}
     /\ Len(log) = 1
     /\ last.status = "fail"
     /\ Unmatched(nmcli_error_text(last)))
        => /\ pc = "done"
           /\ result.tag = "Err"
           /\ contains(result.text, nmcli_error_text(last))

\* connect_open_network failed for want of secrets
C14_Witness ==
    /\ op = "connect_open" /\ pc = "done"
    /\ Len(log) = 1
    /\ last = Failure(MsgSecrets)
    /\ result = Err(Wrap("Failed to connect: ", MsgSecrets))

\* positions of the device-level disconnect
DeviceDisconnects ==
    {i \in 1..Len(log) : SubSeq(log[i].argv, 1, 2) = <<"device", "disconnect">>}

\* the live Wi-Fi table lists an active entry for the SSID on device d
ListsActive(rows, ssid, d) ==
    \E i \in 1..Len(rows) : rows[i] = <<ssid, d, "yes">>

\* C13: disconnect_network issues "connection down", then, only when that
\* exited non-zero, the live Wi-Fi listing, then, only when the listing has
\* an active entry for the SSID, "device disconnect" on a device of such an
\* entry.  It returns success exactly when the connection down or the device
\* disconnect exited zero; with no active entry listed it has returned a
\* failure after the listing.
C13_DisconnectNetwork ==
    (op = "disconnect_network" /\ log # <<>>) =>
        /\ log[1].argv = CmdDown(Ssid)
        /\ Len(log) <= 3
        /\ Len(log) >= 2 => log[2].argv = CmdWifiList /\ log[1].st = "fail"
        /\ (Len(log) = 2 /\ last.status # "ioerr") =>
              /\ log[2].read # <<>> => ListsActive(last.stdout, Ssid, log[2].read[1])
              /\ log[2].read = <<>> =>
                    /\ ~\E d \in {"wlan0", "wlan1"} : ListsActive(last.stdout, Ssid, d)
                    /\ pc = "done" /\ result.tag = "Err"
        /\ \A i \in DeviceDisconnects :
              /\ i = 3
              /\ log[2].read # <<>>
              /\ log[3].argv = CmdDeviceDisconnect(log[2].read[1])
        /\ pc = "done" =>
              (result.tag = "Ok" <=> \E i \in {1, 3} : i <= Len(log) /\ log[i].st = "ok")

\* the connection down failed and the device disconnect succeeded
C13_Witness ==
    /\ op = "disconnect_network" /\ pc = "done"
    /\ Len(log) = 3
    /\ log[1].st = "fail"
    /\ log[3] = Entry(CmdDeviceDisconnect("wlan0"), "ok", <<>>)
    /\ result = Ok("unit")

\* the scan returned a list
Scanned == op = "scan_networks" /\ pc = "done" /\ result.tag = "Ok"

\* the rows of the scan that have six fields and a non-empty SSID
ScanIndex ==
    {i \in 1..Len(last.stdout) :
        /\ Len(rsplitn(6, trim_line(last.stdout[i]))) = 6
        /\ rsplitn(6, trim_line(last.stdout[i]))[6] # <<>>}
ScanRow(i) == network_of(rsplitn(6, trim_line(last.stdout[i])))
KeyOf(n) == <<n.ssid, n.band>>

\* row a is preferred to row b: connected before not connected, then the
\* stronger signal
Preferred(a, b) ==
    \/ a.connected /\ ~b.connected
    \/ a.connected = b.connected /\ a.signal > b.signal

\* C15: the list scan_networks returns has exactly one entry for each
\* (SSID, band) key of a row with a non-empty SSID and no other entry; the
\* entry is connected when a row of its key is, otherwise its signal is at
\* least that of every row of its key; it is the first row of its key to
\* which no row of the key is preferred.
C15_OneEntryPerKey ==
    Scanned =>
        /\ \A i \in ScanIndex :
              Cardinality({j \in 1..Len(result.val) :
                              KeyOf(result.val[j]) = KeyOf(ScanRow(i))}) = 1
        /\ \A j \in 1..Len(result.val) :
              LET same == {i \in ScanIndex : KeyOf(ScanRow(i)) = KeyOf(result.val[j])}
                  best == {i \in same : \A k \in same : ~Preferred(ScanRow(k), ScanRow(i))}
              IN  /\ same # {}
                  /\ (\E i \in same : ScanRow(i).connected) => result.val[j].connected
                  /\ (~\E i \in same : ScanRow(i).connected) =>
                        \A i \in same : result.val[j].signal >= ScanRow(i).signal
                  /\ result.val[j] = ScanRow(CHOOSE i \in best : \A k \in best : i <= k)

\* three rows of one key: a weak connected one between two stronger ones
\* that are not connected; the entry kept is the connected one
C15_Witness ==
    /\ Scanned
    /\ ScanIndex = {1, 2, 3}
    /\ Len(result.val) = 1
    /\ result.val[1].connected /\ result.val[1].signal = 40
    /\ ~ScanRow(1).connected /\ ScanRow(1).signal = 70
    /\ ~ScanRow(3).connected /\ ScanRow(3).signal = 70

\* C16: in the list scan_networks returns every connected entry comes
\* before every entry that is not connected, and among the connected and
\* among the others the signal never increases.
C16_SortedByConnectedThenSignal ==
    Scanned =>
        \A i, j \in 1..Len(result.val) :
            i < j =>
               /\ result.val[j].connected => result.val[i].connected
               /\ result.val[i].connected = result.val[j].connected
                     => result.val[i].signal >= result.val[j].signal

\* three entries: a connected one with no readable signal, then two others
\* of different signals
C16_Witness ==
    /\ Scanned
    /\ Len(result.val) = 3
    /\ result.val[1].connected /\ result.val[1].signal = 0
    /\ ~result.val[2].connected /\ ~result.val[3].connected
    /\ result.val[2].signal > result.val[3].signal


(***************************************************************************)
(* Discovery of the connected devices.                                     *)
(***************************************************************************)
Discovered == op \in DiscoveryOps /\ pc = "done"

\* the log entries that look at the lease files or at their directory
LeaseLooks == {i \in 1..Len(log) : log[i].argv # CmdIpNeigh}

\* C17: the neighbour table and the lease files are never merged: when the
\* neighbour table gives at least one device the call returns exactly these
\* devices and looks at no lease file; a lease file is looked at only after
\* a neighbour table that gave no device.
C17_NeighborOrLeases ==
    /\ op \in DiscoveryOps /\ LeaseLooks # {} =>
          log[1].argv = CmdIpNeigh /\ log[1].read = <<>>
    /\ Discovered /\ log[1].read # <<>> =>
          /\ Len(log) = 1
          /\ result = Found(FromNeigh(last.stdout))
          /\ result = Found(log[1].read)

\* a call that returned what the neighbour table gave, and a call that went
\* on to the lease files
C17_Witness ==
    /\ Discovered /\ op = "get_connected_devices"
    /\ Len(log) = 1 /\ Len(result.val) = 2


\* the devices a returned call of get_connected_devices hands to its caller
Returned ==
    IF Discovered /\ op = "get_connected_devices" THEN result.val ELSE <<>>

\* C18: the list returned by get_connected_devices is deduplicated: no two
\* of its entries have the same hardware address, whatever the neighbour
\* table and the lease files hold.
C18_NoTwoDevicesShareMac ==
    \A i, j \in 1..Len(Returned) :
        i # j => Returned[i].mac # Returned[j].mac

\* an address the discovery is to leave out: the network and gateway
\* addresses and the link-local ones
Excluded(ip) ==
    ends_with(ip, ".0") \/ ends_with(ip, ".1") \/ starts_with(ip, "fe80")

\* C19: no device returned by get_connected_devices and no address counted
\* by get_connected_device_count, whether it comes from the neighbour table
\* or from a lease file, ends in ".0" or ".1" or starts with "fe80".
C19_NoExcludedAddress ==
    /\ \A i \in 1..Len(Returned) : ~Excluded(Returned[i].ip)
    /\ op = "get_connected_device_count" =>
          \A i \in 1..Len(Gathered(log)) : ~Excluded(Gathered(log)[i])


(***************************************************************************)
(* The vendor table.                                                       *)
(***************************************************************************)
Loading == {t \in Threads : lookup[t].pc = "load"}

\* C20: under every interleaving of vendor lookups the vendor table is
\* loaded at most once and not before the first lookup, every lookup sees
\* the table that this one load produced, and the cell, once it holds the
\* table, is never written again.
C20_OuiTableLoadedOnce ==
    /\ [](/\ Len(loaded) + Cardinality(Loading) <= 1
          /\ ~looked => OUI_MAP.state = "uninit" /\ loaded = <<>>
          /\ OUI_MAP.state = "init" => loaded # <<>> /\ OUI_MAP.value = loaded[1]
          /\ \A t \in Threads :
                lookup[t].seen # <<>> =>
                    loaded # <<>> /\ lookup[t].seen = SeenTable(loaded[1]))
    /\ [][OUI_MAP.state = "init" => OUI_MAP' = OUI_MAP]_vars

\* two threads hold the table of the one load, which knows a vendor
C20_Witness ==
    /\ Len(loaded) = 1 /\ loaded[1] # <<>>
    /\ \E t, u \in Threads :
          /\ t # u
          /\ lookup[t].seen = SeenTable(loaded[1]) /\ lookup[t].ret # <<>>
          /\ lookup[u].seen = SeenTable(loaded[1]) /\ lookup[u].ret = <<>>
          /\ lookup[u].pc = "return"


(***************************************************************************)
(* Validation of the configuration.                                        *)
(***************************************************************************)
\* C21: validate accepts a configuration exactly when its SSID has 1 to 32
\* characters, all printable ASCII, and its password is empty or has 8 to 63
\* characters, all printable ASCII; the verdict of validate_ssid is the same
\* with any other password.  save_config goes on to the directory exactly
\* with the accepted configurations.
C21_ValidateAcceptsExactlyValid ==
    op \in {"save_config", "create_hotspot"} =>
        /\ validate(args.config).tag = "Ok" <=> ValidConfig(args.config)
        /\ \A c \in SaveConfigs :
              validate_ssid([args.config EXCEPT !.password = c.password])
                  = validate_ssid(args.config)
        /\ pc \in {"save_mkdir", "save_write", "hs_check_device"}
              => ValidConfig(args.config)
        /\ pc = "done" /\ ~ValidConfig(args.config)
              => result.tag = "Err" /\ result = validate(args.config)

\* save_config has accepted a one-character SSID with a password of 63
\* characters and written it
C21_Witness ==
    /\ op = "save_config" /\ pc = "done" /\ result.tag = "Ok"
    /\ Len(args.config.ssid) = 1 /\ Len(args.config.password) = 63
    /\ file = to_string_pretty(args.config)


(***************************************************************************)
(* Address and mask.                                                       *)
(***************************************************************************)
\* the text "addr/p" for the address of the model, <<>> when cidr is not of
\* this form with p a number up to 255
PrefixOf(cidr) ==
    {p \in 0..255 : cidr = CidrAddress \o <<"/">> \o to_decimal(p)}

\* the set of the bit positions of the 32-bit value whose top p bits are
\* set and no other
TopBits(p) == {i \in 0..31 : i >= 32 - p}

\* the octet o of the value with the bits bs set, 0 the lowest octet
RECURSIVE OctetOf(_, _)
OctetOf(bs, o) ==
    IF \A i \in bs : i \div 8 # o THEN 0
    ELSE LET i == CHOOSE j \in bs : j \div 8 = o
         IN  2^(i % 8) + OctetOf(bs \ {i}, o)

Dotted(a, b, c, d) ==
    to_decimal(a) \o <<".">> \o to_decimal(b) \o <<".">> \o to_decimal(c)
        \o <<".">> \o to_decimal(d)

CidrDone == op = "parse_ipv4_cidr" /\ pc = "done"

\* C22: parse_ipv4_cidr maps "addr/p" with p in 0..32 to the address and the
\* dotted mask whose top p bits are set (0.0.0.0 for 0, 255.255.255.0 for
\* 24, 255.255.255.255 for 32), and gives nothing when p is above 32, is not
\* a number, or the slash is missing.
C22_MaskHasTopBits ==
    CidrDone =>
        /\ \A p \in PrefixOf(args.cidr) :
              IF p <= 32
              THEN result.val =
                      << <<CidrAddress,
                           Dotted(OctetOf(TopBits(p), 3), OctetOf(TopBits(p), 2),
                                  OctetOf(TopBits(p), 1), OctetOf(TopBits(p), 0))>> >>
              ELSE result.val = <<>>
        /\ args.cidr = CidrAddress \o <<"/", "0">>
              => result.val = << <<CidrAddress, Dotted(0, 0, 0, 0)>> >>
        /\ args.cidr = CidrAddress \o <<"/", "2", "4">>
              => result.val = << <<CidrAddress, Dotted(255, 255, 255, 0)>> >>
        /\ args.cidr = CidrAddress \o <<"/", "3", "2">>
              => result.val = << <<CidrAddress, Dotted(255, 255, 255, 255)>> >>
        /\ ~(\E i \in 1..Len(args.cidr) : args.cidr[i] = "/") => result.val = <<>>
        /\ args.cidr \in {CidrAddress \o <<"/">> \o t :
                             t \in {<<"2", "5", "6">>, <<"3", "0", "0">>, <<"-", "1">>,
                                    <<>>, <<"2", "x">>, <<"+">>}}
              => result.val = <<>>

\* the prefix 0 has been decomposed
C22_Witness ==
    /\ CidrDone /\ args.cidr = CidrAddress \o <<"/", "0">>
    /\ result.val # <<>>


(***************************************************************************)
(* Classification of a device.                                             *)
(***************************************************************************)
KindDone == op = "device_kind_for" /\ pc = "done"

\* the kind the host name of the call gives, <<>> if there is no host name
\* or it matches nothing
HostnameMatch ==
    IF args.device.hostname = <<>> THEN <<>>
    ELSE device_kind_from_hostname(args.device.hostname[1])

\* the kind the vendor found by the call gives, <<>> if the vendor was not
\* asked for, is not known, or matches nothing
VendorMatch ==
    IF log = <<>> \/ log[1].read = <<>> THEN <<>>
    ELSE device_kind_from_vendor(log[1].read[1])

\* the first octet of the address has the bit 0x02: aa is 10101010, while
\* DD is 11011101 and 01 is 00000001
HasLocalBit(mac) ==
    \E i \in 1..Len(mac) :
        /\ mac[i] = "aa"
        /\ \A j \in 1..(i - 1) : mac[j] = ":"

\* C23: the host name decides when it matches a keyword, and the vendor is
\* then not asked for; the vendor decides only when the host name is absent
\* or matches nothing; the locally-administered bit gives Phone only when
\* neither matched; otherwise the kind is Unknown.
C23_KindByPriority ==
    /\ op = "device_kind_for" /\ HostnameMatch # <<>> => log = <<>>
    /\ KindDone =>
          IF HostnameMatch # <<>>
          THEN result.val = HostnameMatch[1]
          ELSE /\ Len(log) = 1
               /\ IF VendorMatch # <<>> THEN result.val = VendorMatch[1]
                  ELSE IF HasLocalBit(args.device.mac) THEN result.val = "Phone"
                  ELSE result.val = "Unknown"

\* a device without host name whose address has the bit: the vendor, a
\* maker of televisions, has decided
C23_Witness ==
    /\ KindDone
    /\ args.device.hostname = <<>>
    /\ HasLocalBit(args.device.mac)
    /\ VendorMatch = <<"Tv">> /\ result.val = "Tv"

\* the hint of the call has one of the words, the spellings of one name
HintNames(words) ==
    /\ args.hint # <<>>
    /\ \E i \in 1..Len(args.hint[1]) : args.hint[1][i] \in words

Wpa3Words == {"WPA3", "wpa3"}
WepWords  == {"WEP", "wep"}

\* the security parameters the hint calls for
SecurityFor ==
    IF HintNames(Wpa3Words)
    THEN <<"wifi-sec.key-mgmt", "sae", "wifi-sec.psk", Password>>
    ELSE IF HintNames(WepWords)
    THEN <<"wifi-sec.key-mgmt", "none", "wifi-sec.wep-key0", Password>>
    ELSE <<"wifi-sec.key-mgmt", "wpa-psk", "wifi-sec.psk", Password>>

\* C24: every "connection modify" of connect_secured_network writes, for the
\* profile of the SSID, the security parameters fixed by the hint alone: a
\* hint naming "wpa3" in any case gives key-mgmt "sae" and the password as
\* psk, otherwise a hint naming "wep" gives key-mgmt "none" and the password
\* as wep-key0, and every other hint and no hint give key-mgmt "wpa-psk" and
\* the password as psk.
C24_SecurityFromHint ==
    op = "connect_secured" =>
        \A i \in 1..Len(log) :
           IsModify(log[i].argv) =>
              log[i].argv = <<"connection", "modify", Ssid>> \o SecurityFor

\* the modify was issued for a hint that names both "wep" and "wpa3"
C24_Witness ==
    /\ op = "connect_secured"
    /\ HintNames(Wpa3Words) /\ HintNames(WepWords)
    /\ \E i \in 1..Len(log) :
          /\ IsModify(log[i].argv)
          /\ log[i].argv[5] = "sae"
          /\ log[i].argv[6] = "wifi-sec.psk"

IsDetail(argv) ==
    /\ Len(argv) = 6
    /\ SubSeq(argv, 1, 5) = <<"-t", "-f", "ipv4.method,wifi.mode", "connection", "show">>

\* the step of create_hotspot_on to which the i-th command of the call
\* belongs; validation is step 1 and issues no command, and a "connection
\* down" of another connection than "Hotspot" belongs to the step whose
\* listing was the last one before it
StepOf(i) ==
    LET a == log[i].argv
    IN  IF a = CmdDeviceStatus THEN 2
        ELSE IF a = CmdActiveNDT THEN 3
        ELSE IF a = CmdActiveNT \/ IsDetail(a) THEN 4
        ELSE IF a \in {CmdProfileList, CmdDown("Hotspot"), CmdDeleteHotspot} THEN 5
        ELSE IF IsCreate(a) \/ a \in {CmdAutoconnect, CmdHidden} THEN 6
        ELSE IF a \in {CmdActiveNS, CmdUp("Hotspot")} THEN 7
        ELSE IF \E j \in 1..(i - 1) : log[j].argv = CmdActiveNT THEN 4
        ELSE IF \E j \in 1..(i - 1) : log[j].argv = CmdActiveNDT THEN 3
        ELSE 0

\* C25: in create_hotspot_on a command is issued only for a configuration
\* that passed validation, the first command belongs to the device check,
\* and every later command belongs to the step of the command before it or
\* to the step that follows that one (check device, disconnect the client
\* connections of the interface, deactivate the shared connections, delete
\* the profile, create, activate): no command of a step follows a command
\* of a later step, and no step is passed over.
C25_StepsInOrder ==
    op = "create_hotspot" =>
        /\ log # <<>> => validate(args.config).tag = "Ok" /\ StepOf(1) = 2
        /\ \A i \in 2..Len(log) :
              /\ StepOf(i) \in 2..7
              /\ StepOf(i) \in {StepOf(i - 1), StepOf(i - 1) + 1}

\* a call that had commands in every step: a client connection and a shared
\* connection were brought down, the old profile deleted, the new one
\* created and activated
C25_Witness ==
    /\ op = "create_hotspot" /\ pc = "done"
    /\ \A k \in 2..7 : \E i \in 1..Len(log) : StepOf(i) = k
    /\ \E i, j \in 1..Len(log) :
          /\ StepOf(i) = 3 /\ StepOf(j) = 4
          /\ log[i].argv = CmdDown("Home") /\ log[j].argv = CmdDown("Home")
    /\ \E i \in 1..Len(log) : log[i].argv = CmdDeleteHotspot
    /\ \E i \in 1..Len(log) : log[i].argv = CmdUp("Hotspot")

\* the most recent command is the first attempt of connect_open_network, of
\* connect_secured_network or of activate_saved_connection, and it failed
FirstAttemptFailed ==
    /\ op \in {"connect_open", "connect_secured", "activate_saved"}
    /\ log # <<>>
    /\ last.status = "fail"
    /\ \/ Len(log) = 1 /\ log[1].argv \in {CmdConnectOpen, CmdConnectSecured}
       \/ /\ log[Len(log)].argv = CmdUp(Ssid)
          /\ Len(log) > 1 => log[Len(log) - 1].argv # CmdRescan

\* the branch the call has taken on that failure
BranchTaken ==
    IF pc = "done" /\ result = Ok("Queued") THEN "queued"
    ELSE IF pc \in {"open_rescan", "sec_rescan", "as_rescan"} THEN "retry"
    ELSE IF pc = "done" /\ result.tag = "Err" THEN "failure"
    ELSE "fallback"

\* one classification of a message by the phrases every call site knows,
\* "enqueued" before "connection was interrupted"
BranchOf(message) ==
    IF is_activation_queued(message) THEN "queued"
    ELSE IF is_connection_interrupted_error(message) THEN "retry"
    ELSE "failure"

\* C26, as stated: whenever the first attempt of connect_open_network, of
\* connect_secured_network or of activate_saved_connection fails with a
\* message that only the phrases known at every call site can match (not a
\* missing key-mgmt, not a network that was not found), the call takes the
\* branch that one classification of the message gives, the same at the
\* three call sites: Queued, rescan and retry, or failure.
C26_SameBranchEverywhere ==
    LET message == nmcli_error_text(last)
    IN  (/\ FirstAttemptFailed
         /\ ~is_key_mgmt_missing_error(message)
         /\ ~is_network_not_found_error(message))
            => BranchTaken = BranchOf(message)

\* activate_saved_connection has ended after its retry, the second
\* "connection up" that followed the rescan, exited non-zero
RetryFailed ==
    /\ op \in {"connect_secured", "activate_saved"} /\ pc = "done"
    /\ Len(log) >= 3
    /\ log[Len(log)].argv = CmdUp(Ssid) /\ log[Len(log)].st = "fail"
    /\ log[Len(log) - 1].argv = CmdRescan
    /\ log[Len(log) - 2].argv = CmdUp(Ssid)

\* C27, as stated: when the retry of activate_saved_connection fails, the
\* result is Queued if the message of the retry reports that the activation
\* was enqueued, and otherwise the failure "Failed to activate connection: "
\* followed by the message of the retry.
C27_RetryDecides ==
    RetryFailed =>
        LET message == log[Len(log)].read
        IN  result = IF is_activation_queued(message) THEN Ok("Queued")
                     ELSE Err(Wrap("Failed to activate connection: ", message))

\* the retry of connect_secured_network, the direct connect that follows
\* the rescan, failed with a missing key-management parameter
RetryKeyMgmtMissing ==
    /\ op = "connect_secured"
    /\ Len(log) >= 3
    /\ log[1].argv = CmdConnectSecured
    /\ log[2].argv = CmdRescan
    /\ log[3].argv = CmdConnectSecured /\ log[3].st = "fail"
    /\ MentionsKeyMgmtMissing(log[3].read)

\* C28, as stated: when the retry of connect_secured_network fails with a
\* message containing "key-mgmt" and "missing", the call does not end with
\* that message as its failure but goes on with the device listing of the
\* key-management fallback.
C28_RetryKeyMgmtNotSurfaced ==
    RetryKeyMgmtMissing =>
        /\ result # Err(Wrap("Failed to connect: ", log[3].read))
        /\ result # Err(log[3].read)
        /\ Len(log) = 3 => pc = "km_device"
        /\ Len(log) >= 4 => log[4].argv = CmdDeviceList

\* C29, as stated: in the key-management fallback of connect_secured_network
\* a "connection add" that exited non-zero with a message other than one
\* containing "already exists" is the last command of the call, and the call
\* has ended with a failure that carries that message: neither the modify
\* nor the activation is issued after it.
C29_AddFailureSurfaced ==
    op = "connect_secured" =>
        \A i \in 1..Len(log) :
           (/\ IsAddProfile(log[i].argv)
            /\ log[i].st = "fail"
            /\ ~contains(to_lowercase(log[i].read), <<"already exists">>))
              => /\ i = Len(log)
                 /\ pc = "done"
                 /\ result.tag = "Err"
                 /\ contains(result.text, trim(log[i].read))

IsDown(argv) == Len(argv) = 3 /\ SubSeq(argv, 1, 2) = <<"connection", "down">>

\* a row NAME:DEVICE:TYPE of a wireless connection on the interface, and a
\* row NAME:TYPE of a wireless connection, other than "Hotspot"
ClientOnInterface(row) ==
    /\ Len(row) = 3
    /\ row[1] # "Hotspot" /\ row[2] = Iface
    /\ \E k \in 1..Len(row[3]) : row[3][k] = "wireless"
OtherWireless(row) ==
    /\ Len(row) = 2
    /\ row[1] # "Hotspot"
    /\ \E k \in 1..Len(row[2]) : row[2][k] = "wireless"

\* the answer to the detail look-up shows the shared method or the ap mode
SharedOrAp(o) ==
    /\ o.status # "ioerr"
    /\ \E k \in 1..Len(o.stdout) : o.stdout[k] \in {"shared", "ap"}

\* one step of create_hotspot_on within its steps 3 and 4
C30_Step ==
    (op = "create_hotspot" /\ Len(log') = Len(log) + 1) =>
        LET e == log'[Len(log')]
        IN  /\ (e.argv = CmdActiveNDT /\ last'.status # "ioerr") =>
                   {todo'[k] : k \in 1..Len(todo')} =
                      {last'.stdout[k][1] : k \in
                          {n \in 1..Len(last'.stdout) : ClientOnInterface(last'.stdout[n])}}
            /\ (e.argv = CmdActiveNT /\ last'.status # "ioerr") =>
                   {todo'[k] : k \in 1..Len(todo')} =
                      {last'.stdout[k][1] : k \in
                          {n \in 1..Len(last'.stdout) : OtherWireless(last'.stdout[n])}}
            /\ pc \in {"hs_disc_down", "hs_clean_show", "hs_clean_down"} =>
                   todo # <<>> /\ todo' \in {todo, Tail(todo)}
            /\ (/\ pc \in {"hs_disc_list", "hs_disc_down", "hs_clean_list",
                             "hs_clean_show", "hs_clean_down"}
                /\ IsDown(e.argv)) =>
                   /\ pc \in {"hs_disc_down", "hs_clean_down"}
                   /\ e.argv[3] = Head(todo) /\ e.argv[3] # "Hotspot"
                   /\ pc = "hs_clean_down" =>
                         /\ log[Len(log)].argv = CmdDetail(e.argv[3])
                         /\ SharedOrAp(last)

\* C30: in step 3 of create_hotspot_on the connections to bring down are
\* exactly the listed wireless connections on the interface other than
\* "Hotspot", in step 4 the connections to look up are exactly the listed
\* wireless connections other than "Hotspot", and a "connection down" of
\* these steps is issued only for the next of these connections, in step 4
\* only after its look-up showed the shared method or the ap mode: no
\* non-wireless connection, no wireless client connection of another
\* interface and no "Hotspot" is brought down by these steps.
C30_OnlyConflictingDeactivated == [][C30_Step]_vars

\* step 3 left the listed connection alone and step 4 brought down the
\* wireless connection "Guest" after its look-up
C30_Witness ==
    /\ op = "create_hotspot" /\ pc = "hs_exists"
    /\ Len(log) = 5
    /\ log[2].argv = CmdActiveNDT /\ log[3].argv = CmdActiveNT
    /\ log[4].argv = CmdDetail("Guest") /\ log[5].argv = CmdDown("Guest")

\* the most recent command of create_hotspot_on is a "connection down" or
\* the delete of the profile "Hotspot", and it did not succeed
CleanupFailed ==
    /\ op = "create_hotspot" /\ log # <<>>
    /\ last.status # "ok"
    /\ IsDown(log[Len(log)].argv) \/ log[Len(log)].argv = CmdDeleteHotspot

\* C31: in create_hotspot_on a "connection down" of steps 3 and 4 or of the
\* teardown, or the delete of the existing profile, that fails or cannot be
\* run does not end the call: the call goes on, and the command that
\* follows the delete, whatever the delete answered, is the create of the
\* hotspot.
C31_CleanupFailureIgnored ==
    /\ CleanupFailed =>
          /\ pc # "done" /\ result = NoResult
          /\ log[Len(log)].argv = CmdDeleteHotspot => pc = "hs_add_fast"
    /\ op = "create_hotspot" =>
          \A i \in 1..(Len(log) - 1) :
             log[i].argv = CmdDeleteHotspot => IsCreate(log[i + 1].argv)

\* the delete of the existing profile was refused after a client connection
\* had been brought down, and the create was issued all the same
C31_Witness ==
    /\ op = "create_hotspot"
    /\ \E i \in 1..(Len(log) - 1) :
          /\ log[i].argv = CmdDeleteHotspot /\ log[i].st = "fail"
          /\ IsCreate(log[i + 1].argv)
          /\ \E j \in 1..(i - 1) : log[j].argv = CmdDown("Home")

\* the number of commands of the call with the command line argv
Issued(argv) == Cardinality({i \in 1..Len(log) : log[i].argv = argv})

\* C32: when every subprocess call returns, every call of
\* connect_open_network, connect_secured_network, activate_saved_connection,
\* disconnect_network, create_hotspot_on and stop_hotspot comes to its
\* result, whatever the commands answer; and no call issues a direct
\* connect, an activation or a rescan again and again: a call has at most
\* two direct connects, two activations of one profile and one rescan.
C32_EveryCallReturns ==
    /\ [](/\ Issued(CmdConnectOpen) <= 2 /\ Issued(CmdConnectSecured) <= 2
          /\ Issued(CmdUp(Ssid)) <= 2 /\ Issued(CmdUp("Hotspot")) <= 2
          /\ Issued(CmdRescan) <= 1)
    /\ (op \in {"connect_open", "connect_secured", "activate_saved",
                "disconnect_network", "create_hotspot", "stop_hotspot"})
          ~> (pc = "done")

\* the longest way through connect_secured_network has come to its result:
\* the key-management fallback whose activation was retried and failed
C32_Witness ==
    /\ op = "connect_secured" /\ pc = "done" /\ result.tag = "Err"
    /\ Len(log) = 7
    /\ log[6].argv = CmdRescan
    /\ log[7].argv = CmdUp(Ssid) /\ log[7].st = "fail"

\* the number of futures of the page that wait at one of the awaits
Waiting(awaits) ==
    LET at == {t \in BagToSet(page.tasks) : t.pc \in awaits}
        count[S \in SUBSET at] ==
            IF S = {} THEN 0
            ELSE LET t == CHOOSE x \in S : TRUE
                 IN  CopiesIn(t, page.tasks) + count[S \ {t}]
    IN  count[at]

\* C33, as stated: no interleaving of the interface timer with a start of
\* the hotspot reaches a borrow_mut of the device list while start_hotspot
\* holds its borrow of it: the page never panics on the RefCell.
C33_NoDoubleBorrow == ~page.panicked

\* C34: on the hotspot page at most one call of create_hotspot_on or of
\* hotspot::stop_hotspot is awaited at any time, whatever the order in which
\* the futures of the two switch handlers, of the timer and of the
\* programmatic switch changes run; and operation_in_progress is true
\* exactly while one start_hotspot or stop_hotspot of the page is between
\* its first await and its return: it is set before the first await and
\* false again after every return.
C34_OneOperationInFlight ==
    /\ Waiting({"create_hotspot_on", "stop_hotspot"}) <= 1
    /\ Waiting({"resolve_password", "create_hotspot_on", "stop_hotspot",
                "stop_readback"})
          = IF page.operation_in_progress THEN 1 ELSE 0

\* create_hotspot_on is awaited while the future of the other switch
\* handler and a future that will stop the hotspot wait for their turn
C34_Witness ==
    /\ Waiting({"create_hotspot_on"}) = 1
    /\ Waiting({"handler_compat"}) >= 1
    /\ \E t \in BagToSet(page.tasks) : t.pc = "handler" /\ ~t.active

\* the profiles named after the SSID that the commands of the call have
\* added to the saved profiles and not deleted again
LeftSaved ==
    {i \in 1..Len(log) :
        /\ IsAddProfile(log[i].argv) /\ log[i].st = "ok"
        /\ ~\E j \in (i + 1)..Len(log) :
               /\ log[j].argv = <<"connection", "delete", Ssid>>
               /\ log[j].st = "ok"}

\* C35, as stated: a call of connect_secured_network that has ended in a
\* failure has left no profile behind: a profile that the key-management
\* fallback added for the SSID was deleted again before the call returned.
C35_FailureLeavesNoProfile ==
    (op = "connect_secured" /\ pc = "done" /\ result.tag = "Err")
        => LeftSaved = {}

\* a call of get_connected_devices has returned, and nothing was taken from
\* any answer but the last one: get_connected_device_count, which never
\* takes an address where get_connected_devices takes no device, is at its
\* last answer too on the same neighbour table and the same files
OnlyLastGave ==
    /\ Discovered /\ op = "get_connected_devices"
    /\ last.status # "ioerr"
    /\ \A i \in 1..(Len(log) - 1) : log[i].read = <<>>

\* what get_connected_device_count takes from that last answer
CountTakes ==
    IF Len(log) = 1 THEN neigh_ips(last.stdout)
    ELSE parse_lease_content_ips(last.stdout)

\* get_connected_device_count returns after that answer: it has addresses,
\* or the answer is the last fallback file
CountReturnsToo ==
    \/ CountTakes # <<>>
    \/ log[Len(log)].argv = ReadToString(fallback_paths[Len(fallback_paths)])

\* C36, as stated: on the same neighbour table and the same lease files
\* get_connected_device_count returns the number of devices that
\* get_connected_devices returns.
C36_CountEqualsDevices ==
    (OnlyLastGave /\ CountReturnsToo) =>
        Len(result.val) = Cardinality({CountTakes[i] : i \in 1..Len(CountTakes)})

\* the lists a run of scan_networks can return on the rows of this scan
RunsOn(rows) == {sort_by(networks) : networks \in into_values(networks_by_key(rows))}

\* C37, as stated: scan_networks is deterministic in its input; the list a
\* run returns is the list every run on the same rows returns, the order of
\* entries of different keys with equal connected state and equal signal
\* included.
C37_SameRowsSameList ==
    Scanned => RunsOn(last.stdout) = {result.val}

\* the positions of the colons of a line, and of its five rightmost ones
ColonsOf(line) == {i \in 1..Len(line) : line[i] = Colon}
Rightmost(line) ==
    {c \in ColonsOf(line) : Cardinality({d \in ColonsOf(line) : d > c}) < 5}

\* the text between the colon at c and the next colon or the end of the line
FieldAfter(line, c) ==
    LET next == {d \in ColonsOf(line) : d > c}
    IN  SubSeq(line, c + 1,
               IF next = {} THEN Len(line)
               ELSE (CHOOSE d \in next : \A e \in next : d <= e) - 1)

\* the five rightmost fields of a line with at least five colons, from the
\* left, and what is in front of them
FieldOf(line, n) ==
    FieldAfter(line, CHOOSE c \in Rightmost(line) :
                        Cardinality({d \in Rightmost(line) : d < c}) = n - 1)
RemainderOf(line) ==
    SubSeq(line, 1, (CHOOSE c \in Rightmost(line) : \A d \in Rightmost(line) : c <= d) - 1)

\* the number a field stands for (kinds: the forms that count as a number),
\* 0 when it is no number
NumberOr0(field, kinds, max) ==
    IF Len(field) = 1 /\ field[1][1] \in kinds /\ field[1][2] <= max
    THEN field[1][2] ELSE 0

\* the line is what the entry was made from, as the claim has it
MadeFrom(entry, line) ==
    /\ Cardinality(ColonsOf(line)) >= 5
    /\ RemainderOf(line) # <<>>
    /\ entry.ssid = RemainderOf(line)
    /\ entry.signal = NumberOr0(FieldOf(line, 1), {"num"}, 255)
    /\ entry.secured = (FieldOf(line, 2) \notin {<<>>, << <<"--">> >>})
    /\ entry.connected = (FieldOf(line, 3) = Yes)
    /\ entry.channel = NumberOr0(FieldOf(line, 4), {"num", "num MHz"}, 10000)
    /\ entry.freq_mhz = NumberOr0(FieldOf(line, 5), {"num", "num MHz"}, 10000)

\* C39, as stated: of a scan row with at least five colons scan_networks
\* takes the five rightmost fields as signal, security, active flag,
\* channel and frequency and the whole remainder, colons included, as the
\* SSID; a row with fewer fields or an empty SSID is skipped and the scan
\* does not fail; a signal, channel or frequency that is no number is 0.
C39_FieldsFromTheRight ==
    (op = "scan_networks" /\ pc = "done" /\ last.status = "ok") =>
        /\ result.tag = "Ok"
        /\ \A j \in 1..Len(result.val) :
              \E i \in 1..Len(last.stdout) : MadeFrom(result.val[j], last.stdout[i])
        /\ \A i \in 1..Len(last.stdout) :
              (Cardinality(ColonsOf(last.stdout[i])) >= 5 /\ RemainderOf(last.stdout[i]) # <<>>)
                 => \E j \in 1..Len(result.val) : result.val[j].ssid = RemainderOf(last.stdout[i])

\* the fields of NetworkInfo that both lookups can give, each with the key
\* of the device under which the live lookup gives it (none for the UUID)
SharedFields == {"interface", "connection_type", "uuid", "mac_address"}
DeviceKey(f) ==
    CASE f = "interface" -> <<"GENERAL.DEVICE">>
      [] f = "connection_type" -> <<"GENERAL.TYPE">>
      [] f = "mac_address" -> <<"GENERAL.HWADDR">>
      [] f = "uuid" -> <<>>

\* what the live lookup gives for a field: nothing when the lookup failed,
\* found no device or has no line for the field
Live(f) ==
    IF Len(log) >= 3 /\ log[3].read # <<>> /\ DeviceKey(f) # <<>>
    THEN get(log[3].read[1], DeviceKey(f)[1])
    ELSE <<>>

\* C38, as stated: get_network_info returns a result whatever lookup
\* fails, and for interface name, connection type, UUID and MAC address a
\* usable value of the saved profile is the value returned when the live
\* lookup has no usable value for the field (none, empty or "--").
C38_ProfileFillsGaps ==
    (op = "get_network_info" /\ pc = "done") =>
        /\ result.tag = "Ok"
        /\ \A f \in SharedFields :
              (InfoAfterProfile[f] # <<>> /\ filter(Live(f)) = <<>>)
                 => result.val[f] = InfoAfterProfile[f]

=============================================================================
